---- MODULE Spec2Model ----
(***************************************************************************)
(* Model of the comic download queue of plugins/jmcomic/service.py: the    *)
(* module-level lists _running_jobs and _download_queue, the asyncio locks  *)
(* and the _run_job pipeline tasks that the event loop interleaves at their *)
(* await points; of the comic command handlers of plugins/jmcomic/__init__; *)
(* of the PDF build and upload-timeout helpers of the comic service; and of *)
(* the Pixiv session of plugins/pixiv/service.py.                           *)
(***************************************************************************)
EXTENDS Integers, Sequences, FiniteSets

\* ------------------------------------------------------------ constants
MAX_CONCURRENT == 2

\* capacity of the waiting queue (the literal 20 of enqueue_job)
QUEUE_LIMIT == 20

API_TIMEOUT == 60

MAX_PDF_NAME_LENGTH == 30

MAX_IMAGES_PER_PDF == 200

MAX_PDF_SIZE_MB == 50

\* _get_api: seconds after which the session is authenticated again
AUTH_MAX_AGE == 3000

\* pixiv_search, pixiv_ranking: `limit: int = 10`, the limit the callers pass
DEFAULT_LIMIT == 10

\* _handle_download: the largest number read as an index into the cached result
INDEX_MAX == 20

\* jmcomic_client.py:31, the default of `retries`
DEFAULT_RETRIES == 2

\* bytes of a megabyte (the literal 1024 * 1024)
MB == 1048576

\* _calc_upload_timeout: file size in MB up to which the base timeout is used
LARGE_FILE_MB == 100

\* _calc_upload_timeout: the longest timeout, in seconds
TIMEOUT_CAP == 300

\* ------------------------------------------------------------ bounds
\* longest waiting queue the varied-input specification Spec lets requests build
MaxWaiting == 2

\* most PDF entries (parts over all chapters) one job produces
MaxParts == 2

\* event-loop task slots available to _run_job tasks
NumTasks == 3

\* largest file measured for its upload timeout, in steps of ten megabytes
MaxTenMB == 60

\* images a chapter has beyond MAX_IMAGES_PER_PDF in the chapters built
MaxExtra == 50

\* longest base_name a chapter is built under, in characters
MaxBaseLen == 27

\* the clock runs for this many periods of AUTH_MAX_AGE
MaxPeriods == 1

\* works a search or ranking result holds beyond the caller's limit
MaxOver == 1

\* worker threads that run Pixiv service calls at the same time
NumWorkers == 2

\* Pixiv command handlers that wait for their service call at the same time
MaxPending == 1

\* largest `retries` argument of download_album_with_retry
MaxRetries == 2

\* delayed_cleanup tasks that sleep at the same time
MaxCleanups == 1

\* download messages arrive while fewer jobs than this wait (specification
\* SpecRouter)
MaxBacklog == 1

TaskIds == 1..NumTasks

\* ------------------------------------------------------------ inputs
\* download requests <<event, album_id>>, an event giving message_type, group_id
\* (0 is None) and user_id: two users of one group ask for album 1, one user
\* asks for album 2 in private chat
Requests ==
    { <<[message_type |-> "group",   group_id |-> 1, user_id |-> 1], 1>>,
      <<[message_type |-> "group",   group_id |-> 1, user_id |-> 2], 1>>,
      <<[message_type |-> "private", group_id |-> 0, user_id |-> 1], 2>> }

\* the single request of the capacity specification SpecFull
FillRequest == <<[message_type |-> "group", group_id |-> 1, user_id |-> 1], 1>>

\* the requests of the fair specification SpecLive: one album asked for in a
\* group, another in private chat
LiveRequests ==
    { <<[message_type |-> "group",   group_id |-> 1, user_id |-> 1], 1>>,
      <<[message_type |-> "private", group_id |-> 0, user_id |-> 1], 2>> }

\* album ids a cancel command may name (3 is never requested)
AlbumIds == {1, 2, 3}

UploadOutcomes == {"ok", "warn", "err"}

VARIABLES
    _running_jobs,     \* service.py:26, list of job dicts
    _download_queue,   \* service.py:25, list of job dicts (the waiting queue)
    _upload_lock,      \* service.py:28, asyncio.Lock: locked flag and FIFO waiters
    tasks,             \* the _run_job task of each slot: its job and await point
    ret,               \* the queue operation this step performed: its name, its
                       \* album_id argument and the values it returned
    calls,             \* enqueue_job calls made since the queue was idle, -1 once
                       \* a job finished or was cancelled in between
    track,             \* observer: where one marked job currently is (waiting at
                       \* a queue position, running in a task slot, done or
                       \* cancelled) and whether it had to wait
    jm_ENABLED,        \* service.py:15, ENABLED, the comic plugin's switch (the
                       \* handlers read it as jm_service.ENABLED)
    ALLOWED_GROUPS,    \* service.py:16, group ids served (empty: every group)
    handled,           \* observer: what the last comic command handler did: its
                       \* command and event, the calls it made, the reply it sent
    pdf_size,          \* pdf_path.stat().st_size of the file about to be uploaded
    upload_timeout,    \* what _calc_upload_timeout returned for it, in ticks
    chapter,           \* arguments of _build_pdfs_with_limits: the byte sizes of
                       \* the chapter's images, in order, and base_name
    merged,            \* observer: the merge_to_pdf calls of the build, in order
    final_paths,       \* what _build_pdfs_with_limits returned
    pdf_dir,           \* the PDF files in pdf_dir after the build
    _api,              \* pixiv/service.py:19, the session: 0 is None, n the n-th
                       \* AppPixivAPI object created
    _last_auth_time,   \* pixiv/service.py:20
    now,               \* time.time()
    token_file,        \* whether REFRESH_TOKEN_FILE exists
    px,                \* observer: the last call of the Pixiv service: its
                       \* _get_api calls, its API calls and how it ended
    _search_cache,     \* pixiv/__init__.py:31, user key -> list of work ids
    pending,           \* the Pixiv command handlers that wait for their
                       \* asyncio.to_thread call: command, user key, argument
    _queue_lock,       \* service.py:27, asyncio.Lock: whether it is locked
    qop,               \* observer: the last queue function run statement by
                       \* statement: its list writes and whether each was made
                       \* while holding _queue_lock
    up,                \* one _run_job from its upload block on: the PDF
                       \* entries, the API calls made, the texts sent
    dl,                \* one download_album_with_retry call: its retries
                       \* argument, the attempts made and how it ended
    workers,           \* the threads of asyncio.to_thread inside _get_api
    handles,           \* number of AppPixivAPI objects created so far
    cleanups,          \* the delayed_cleanup tasks that still sleep: the album
                       \* id of the directories each will remove
    touched            \* observer: for each _run_job task, what another job
                       \* did to its working directories since it built them

queueVars == <<_running_jobs, _download_queue, _upload_lock, tasks, ret, calls, track>>

comicVars == <<jm_ENABLED, ALLOWED_GROUPS, handled>>

timeoutVars == <<pdf_size, upload_timeout>>

buildVars == <<chapter, merged, final_paths, pdf_dir>>

pixivVars == <<_api, _last_auth_time, now, token_file, px>>

\* everything the queue operations and the pipeline leave alone
cacheVars == <<_search_cache, pending>>

lockVars == <<_queue_lock, qop>>

uploadVars == <<up>>

retryVars == <<dl>>

threadVars == <<workers, handles>>

fileVars == <<cleanups, touched>>

restVars ==
    <<cacheVars, lockVars, uploadVars, retryVars, threadVars, fileVars>>

otherVars == <<comicVars, timeoutVars, buildVars, pixivVars, restVars>>

\* everything the comic command handlers leave alone
routerOther == <<timeoutVars, buildVars, pixivVars, restVars>>

vars == <<queueVars, otherVars>>

\* ------------------------------------------------------------ values
NoJob == [album_id |-> 0, message_type |-> "none", group_id |-> 0, user_id |-> 0]

NoTask == [pc |-> "none", job |-> NoJob, part |-> 0, total |-> 0]

NoRet ==
    [op |-> "none", album_id |-> 0, status |-> "none", ahead |-> 0, limit |-> 0,
     queued |-> 0, removed |-> 0, running_same |-> FALSE]

NoTrack == [st |-> "none", at |-> 0, waited |-> FALSE]

NoEvent ==
    [message_type |-> "none", group_id |-> 0, user_id |-> 0, to_me |-> FALSE,
     message |-> <<>>]

NoHandled ==
    [cmd |-> "none", event |-> NoEvent, matches |-> <<>>, enabled |-> TRUE,
     checked |-> FALSE, blocked |-> FALSE, enqueued |-> <<>>,
     replied |-> FALSE, reply |-> <<>>]

\* the job dict built by enqueue_job
MakeJob(event, album_id) ==
    [album_id |-> album_id, message_type |-> event.message_type,
     group_id |-> event.group_id, user_id |-> event.user_id]

\* `job in lst` of a Python list: comparison by value
InList(lst, job) == \E i \in 1..Len(lst) : lst[i] = job

\* lst.remove(job): drops the first element equal to job
RemoveFirst(lst, job) ==
    LET i == CHOOSE k \in 1..Len(lst) :
                 lst[k] = job /\ \A m \in 1..(k - 1) : lst[m] # job
    IN  SubSeq(lst, 1, i - 1) \o SubSeq(lst, i + 1, Len(lst))

\* ------------------------------------------------------------ decisions
\* enqueue_job: `len(_download_queue) >= 20`
queue_is_full_gt(queue) == Len(queue) > QUEUE_LIMIT

queue_is_full(queue) == Len(queue) >= QUEUE_LIMIT

\* enqueue_job: `len(_running_jobs) < MAX_CONCURRENT`
enqueue_can_start_le(running) == Len(running) <= MAX_CONCURRENT

enqueue_can_start(running) == Len(running) < MAX_CONCURRENT

\* enqueue_job: `ahead = len(_download_queue)`
ahead_of_after(queue) == Len(queue) + 1

ahead_of(queue) == Len(queue)

\* _finish_job: `if _download_queue and len(_running_jobs) < MAX_CONCURRENT`
finish_can_promote_never(queue, running) == FALSE

finish_can_promote(queue, running) ==
    queue # <<>> /\ Len(running) < MAX_CONCURRENT

\* _finish_job: `nxt = _download_queue.pop(0)`: the index popped
pop_index_last(queue) == Len(queue)

pop_index(queue) == 1

\* cancel_job: `_download_queue[:] = [j for j in _download_queue if j["album_id"] != album_id]`
cancel_filter_first(queue, album_id) ==
    IF \E i \in 1..Len(queue) : queue[i].album_id = album_id
    THEN LET i == CHOOSE k \in 1..Len(queue) :
                      /\ queue[k].album_id = album_id
                      /\ \A m \in 1..(k - 1) : queue[m].album_id # album_id
         IN  SubSeq(queue, 1, i - 1) \o SubSeq(queue, i + 1, Len(queue))
    ELSE queue

cancel_filter(queue, album_id) ==
    SelectSeq(queue, LAMBDA j : j.album_id # album_id)

\* cancel_job: `running_same = any(j["album_id"] == album_id for j in _running_jobs)`
running_same_false(running, album_id) == FALSE

running_same(running, album_id) ==
    \E i \in 1..Len(running) : running[i].album_id = album_id

\* asyncio.Lock.acquire: taken without suspending when unlocked and nobody waits
lock_is_free_always(lock) == TRUE

lock_is_free(lock) == ~lock.locked /\ lock.waiters = <<>>

\* asyncio.Lock.release at the end of `async with _upload_lock`
lock_release_kept(lock) == lock

lock_release(lock) == [lock EXCEPT !.locked = FALSE]

\* ------------------------------------------------------------ tasks
HasFreeTask(ts) == \E i \in TaskIds : ts[i].pc = "none"

FreeTask(ts) ==
    CHOOSE i \in TaskIds :
        ts[i].pc = "none" /\ \A k \in TaskIds : ts[k].pc = "none" => i <= k

\* asyncio.create_task(_run_job(bot, job)): the task runs to its first await,
\* the download
create_task(ts, job) ==
    [ts EXCEPT ![FreeTask(ts)] =
        [pc |-> "download", job |-> job, part |-> 0, total |-> 0]]

\* the queue module after import
InitQueue ==
    /\ _running_jobs = <<>>
    /\ _download_queue = <<>>
    /\ _upload_lock = [locked |-> FALSE, waiters |-> <<>>]
    /\ tasks = [t \in TaskIds |-> NoTask]
    /\ ret = NoRet
    /\ calls = 0
    /\ track = NoTrack

\* the comic plugin's configuration as the source sets it
InitComic ==
    /\ jm_ENABLED = TRUE
    /\ ALLOWED_GROUPS = {}
    /\ handled = NoHandled

\* no file has been built or measured
NoTimeout == [set |-> FALSE, ticks |-> 0]

NoChapter == [imgs |-> <<>>, base_name |-> <<>>]

InitIdle ==
    /\ pdf_size = 0
    /\ upload_timeout = NoTimeout
    /\ chapter = NoChapter
    /\ merged = <<>>
    /\ final_paths = <<>>
    /\ pdf_dir = {}

\* time.time() when the process starts: any time of day is further from the
\* epoch than AUTH_MAX_AGE
StartTime == 2 * AUTH_MAX_AGE

NoPx ==
    [op |-> "none", limit |-> 0, gets |-> <<>>, api_calls |-> <<>>,
     raised |-> FALSE, illusts |-> <<>>, success |-> FALSE, error |-> "", count |-> 0]

\* the Pixiv service after import, the refresh token saved
InitPixiv ==
    /\ _api = 0
    /\ _last_auth_time = 0
    /\ now = StartTime
    /\ token_file = TRUE
    /\ px = NoPx

\* no Pixiv command has been handled
InitCache ==
    /\ _search_cache = [k \in {} |-> <<>>]
    /\ pending = {}

NoQop == [op |-> "none", writes |-> <<>>, running |-> <<>>, queue |-> <<>>]

InitLock ==
    /\ _queue_lock = FALSE
    /\ qop = NoQop

\* no job is in its upload block
NoUp ==
    [phase |-> "none", message_type |-> "none", total |-> 0,
     cover_exists |-> FALSE, parts |-> <<>>, upload_err |-> "none",
     upload_warn |-> "none", sent |-> <<>>, cover_posted |-> FALSE,
     finished |-> FALSE, base_name |-> <<>>, files |-> {}]

InitUpload == up = NoUp

\* no download_album_with_retry call
NoDl ==
    [phase |-> "none", album_id |-> 0, retries |-> 0, attempt |-> 0,
     outcomes |-> <<>>, last_err |-> <<>>]

InitRetry == dl = NoDl

\* worker threads a Pixiv command may run on
Workers == 1..NumWorkers

\* a thread outside _get_api: its position, its force_reauth argument, the
\* handle it built and the handle _get_api returned to it
NoWorker == [pc |-> "idle", force |-> FALSE, made |-> 0, api |-> 0]

InitThreads ==
    /\ workers = [w \in Workers |-> NoWorker]
    /\ handles = 0

\* no cleanup is scheduled
InitFiles ==
    /\ cleanups = <<>>
    /\ touched = [t \in TaskIds |-> "none"]

InitRest ==
    InitCache /\ InitLock /\ InitUpload /\ InitRetry /\ InitThreads /\ InitFiles

Init == InitQueue /\ InitComic /\ InitIdle /\ InitPixiv /\ InitRest

\* ------------------------------------------------------------ queue operations
\* enqueue_job(bot, event, album_id); mark says whether the observer follows
\* the admitted job
enqueue_job(event, album_id, mark) ==
    LET job == MakeJob(event, album_id)
        called == [NoRet EXCEPT !.op = "enqueue", !.album_id = album_id]
    IN
    /\ UNCHANGED _upload_lock
    /\ IF queue_is_full(_download_queue)
       THEN /\ ret' = [called EXCEPT !.status = "full", !.limit = QUEUE_LIMIT,
                                     !.queued = Len(_download_queue)]
            /\ calls' = -1
            /\ UNCHANGED <<_running_jobs, _download_queue, tasks, track>>
       ELSE IF enqueue_can_start(_running_jobs)
       THEN /\ _running_jobs' = Append(_running_jobs, job)
            /\ tasks' = create_task(tasks, job)
            /\ ret' = [called EXCEPT !.status = "started", !.ahead = 0]
            /\ calls' = IF calls >= 0 THEN calls + 1 ELSE calls
            /\ track' = IF mark
                        THEN [st |-> "running", at |-> FreeTask(tasks),
                              waited |-> FALSE]
                        ELSE track
            /\ UNCHANGED _download_queue
       ELSE /\ _download_queue' = Append(_download_queue, job)
            /\ ret' = [called EXCEPT !.status = "queued",
                                     !.ahead = ahead_of(_download_queue)]
            /\ calls' = IF calls >= 0 THEN calls + 1 ELSE calls
            /\ track' = IF mark
                        THEN [st |-> "waiting", at |-> Len(_download_queue) + 1,
                              waited |-> TRUE]
                        ELSE track
            /\ UNCHANGED <<_running_jobs, tasks>>

\* number of entries of queue[1..n] that cancel_job(album_id) removes
RemovedBefore(queue, album_id, n) ==
    Cardinality({i \in 1..n : queue[i].album_id = album_id})

\* cancel_job(album_id)
cancel_job(album_id) ==
    LET before == Len(_download_queue)
        after == cancel_filter(_download_queue, album_id)
    IN  /\ _download_queue' = after
        /\ ret' = [NoRet EXCEPT !.op = "cancel", !.album_id = album_id,
                                !.removed = before - Len(after),
                                !.running_same = running_same(_running_jobs, album_id),
                                !.queued = Len(after)]
        /\ calls' = IF before - Len(after) > 0 THEN -1 ELSE calls
        /\ track' = IF track.st = "waiting"
                    THEN IF _download_queue[track.at].album_id = album_id
                         THEN [track EXCEPT !.st = "cancelled", !.at = 0]
                         ELSE [track EXCEPT !.at = track.at -
                                  RemovedBefore(_download_queue, album_id, track.at)]
                    ELSE track
        /\ UNCHANGED <<_running_jobs, _upload_lock, tasks>>

\* ------------------------------------------------------------ pipeline
\* _finish_job(bot, job) called by task t, which ends with it
_finish_job(t) ==
    LET job == tasks[t].job
        running1 == IF InList(_running_jobs, job)
                    THEN RemoveFirst(_running_jobs, job)
                    ELSE _running_jobs
        tasks1 == [tasks EXCEPT ![t] = NoTask]
        track1 == IF track.st = "running" /\ track.at = t
                  THEN [track EXCEPT !.st = "done", !.at = 0]
                  ELSE track
        promote == finish_can_promote(_download_queue, running1)
        k == pop_index(_download_queue)
        nxt == _download_queue[k]
    IN  /\ _running_jobs' = IF promote THEN Append(running1, nxt) ELSE running1
        /\ _download_queue' =
              IF promote
              THEN SubSeq(_download_queue, 1, k - 1)
                      \o SubSeq(_download_queue, k + 1, Len(_download_queue))
              ELSE _download_queue
        /\ tasks' = IF promote THEN create_task(tasks1, nxt) ELSE tasks1
        /\ track' = IF promote /\ track1.st = "waiting"
                    THEN IF track1.at = k
                         THEN [track1 EXCEPT !.st = "running",
                                             !.at = FreeTask(tasks1)]
                         ELSE IF track1.at > k
                              THEN [track1 EXCEPT !.at = track1.at - 1]
                              ELSE track1
                    ELSE track1
        /\ calls' = IF _running_jobs' = <<>> /\ _download_queue' = <<>>
                    THEN 0 ELSE -1
        /\ ret' = [NoRet EXCEPT !.op = "finish", !.album_id = job.album_id,
                                !.status = IF promote THEN "promoted" ELSE "done"]

\* _run_job after the upload block: schedule cleanup, then post the cover, send
\* the failure notice, or finish at once
after_upload(t, failed, cover_exists) ==
    LET job == tasks[t].job IN
    IF failed
    THEN /\ tasks' = [tasks EXCEPT ![t] = [NoTask EXCEPT !.pc = "notify_err", !.job = job]]
         /\ ret' = NoRet
         /\ UNCHANGED <<_running_jobs, _download_queue, calls, track>>
    ELSE IF job.message_type = "group" /\ job.group_id # 0 /\ cover_exists
    THEN /\ tasks' = [tasks EXCEPT ![t] = [NoTask EXCEPT !.pc = "cover", !.job = job]]
         /\ ret' = NoRet
         /\ UNCHANGED <<_running_jobs, _download_queue, calls, track>>
    ELSE _finish_job(t)

\* download_album_with_retry returns or raises
download_done(t, ok) ==
    /\ tasks[t].pc = "download"
    /\ tasks' = [tasks EXCEPT ![t].pc = IF ok THEN "build" ELSE "notify_fail"]
    /\ ret' = NoRet
    /\ UNCHANGED <<_running_jobs, _download_queue, _upload_lock, calls, track>>

\* load_album_dir, gather_images and _build_pdfs_with_limits return n PDF
\* entries or raise; on success the task enters `async with _upload_lock`
build_done(t, ok, n, cover_exists) ==
    /\ tasks[t].pc = "build"
    /\ IF ~ok
       THEN /\ tasks' = [tasks EXCEPT ![t].pc = "notify_fail"]
            /\ ret' = NoRet
            /\ UNCHANGED <<_running_jobs, _download_queue, _upload_lock, calls, track>>
       ELSE IF ~lock_is_free(_upload_lock)
       THEN /\ tasks' = [tasks EXCEPT ![t].pc = "lock_wait", ![t].total = n]
            /\ _upload_lock' = [_upload_lock EXCEPT !.waiters = Append(@, t)]
            /\ ret' = NoRet
            /\ UNCHANGED <<_running_jobs, _download_queue, calls, track>>
       ELSE IF n = 0
       THEN /\ _upload_lock' = lock_release(_upload_lock)
            /\ after_upload(t, FALSE, cover_exists)
       ELSE /\ tasks' = [tasks EXCEPT ![t].pc = "upload", ![t].part = 1,
                                      ![t].total = n]
            /\ _upload_lock' = [_upload_lock EXCEPT !.locked = TRUE]
            /\ ret' = NoRet
            /\ UNCHANGED <<_running_jobs, _download_queue, calls, track>>

\* a waiter of _upload_lock is woken by release and takes the lock
lock_acquired(t, cover_exists) ==
    /\ tasks[t].pc = "lock_wait"
    /\ ~_upload_lock.locked
    /\ _upload_lock.waiters # <<>>
    /\ Head(_upload_lock.waiters) = t
    /\ IF tasks[t].total = 0
       THEN /\ _upload_lock' = lock_release(
                   [_upload_lock EXCEPT !.waiters = Tail(@)])
            /\ after_upload(t, FALSE, cover_exists)
       ELSE /\ _upload_lock' = [locked |-> TRUE, waiters |-> Tail(_upload_lock.waiters)]
            /\ tasks' = [tasks EXCEPT ![t].pc = "upload", ![t].part = 1]
            /\ ret' = NoRet
            /\ UNCHANGED <<_running_jobs, _download_queue, calls, track>>

\* _upload_pdf_with_retry returns for the current part
upload_done(t, outcome, cover_exists) ==
    /\ tasks[t].pc = "upload"
    /\ IF outcome # "err" /\ tasks[t].part < tasks[t].total
       THEN /\ tasks' = [tasks EXCEPT ![t].part = @ + 1]
            /\ ret' = NoRet
            /\ UNCHANGED <<_running_jobs, _download_queue, _upload_lock, calls, track>>
       ELSE /\ _upload_lock' = lock_release(_upload_lock)
            /\ after_upload(t, outcome = "err", cover_exists)

\* the cover post returns, fails or times out
cover_done(t) ==
    /\ tasks[t].pc = "cover"
    /\ _finish_job(t)
    /\ UNCHANGED _upload_lock

\* _send_text of a failure notice returns
notify_done(t) ==
    /\ tasks[t].pc \in {"notify_fail", "notify_err"}
    /\ _finish_job(t)
    /\ UNCHANGED _upload_lock

\* one task resumes at its await point
step(t) ==
    \/ \E ok \in BOOLEAN : download_done(t, ok)
    \/ \E ok \in BOOLEAN, n \in 0..MaxParts, c \in BOOLEAN : build_done(t, ok, n, c)
    \/ \E c \in BOOLEAN : lock_acquired(t, c)
    \/ \E o \in UploadOutcomes, c \in BOOLEAN : upload_done(t, o, c)
    \/ cover_done(t)
    \/ notify_done(t)

\* ------------------------------------------------------------ specifications
Enqueue ==
    \E r \in Requests :
        /\ Len(_download_queue) < MaxWaiting
        /\ HasFreeTask(tasks)
        /\ enqueue_job(r[1], r[2], FALSE)
        /\ UNCHANGED otherVars

Cancel == \E a \in AlbumIds : cancel_job(a) /\ UNCHANGED otherVars

Run == \E t \in TaskIds : step(t) /\ UNCHANGED otherVars

Next == Enqueue \/ Cancel \/ Run

Spec == Init /\ [][Next]_vars

\* the waiting queue is filled to its capacity by one repeated request
EnqueueFull ==
    /\ HasFreeTask(tasks)
    /\ enqueue_job(FillRequest[1], FillRequest[2], FALSE)
    /\ UNCHANGED otherVars

NextFull == EnqueueFull \/ Cancel \/ Run

SpecFull == Init /\ [][NextFull]_vars

\* requests of which the observer may mark one, under a fair event loop: every
\* task whose awaited call can return is resumed
EnqueueMarked ==
    \E r \in LiveRequests, mark \in BOOLEAN :
        /\ Len(_download_queue) < MaxWaiting
        /\ HasFreeTask(tasks)
        /\ mark => track.st = "none"
        /\ enqueue_job(r[1], r[2], mark)
        /\ UNCHANGED otherVars

NextLive == EnqueueMarked \/ Cancel \/ Run

Fairness == \A t \in TaskIds : WF_vars(step(t) /\ UNCHANGED otherVars)

SpecLive == Init /\ [][NextLive]_vars /\ Fairness

\* ------------------------------------------------------------ properties
\* a _run_job task is created for slot t in this step
Started(t) == tasks'[t].pc = "download" /\ tasks[t].pc # "download"

\* album a has an entry in the waiting queue / in the running set
Waits(a) == \E i \in 1..Len(_download_queue) : _download_queue[i].album_id = a

Runs(a) == \E i \in 1..Len(_running_jobs) : _running_jobs[i].album_id = a

\* lst2 is lst with one element appended
Appended(lst, lst2) ==
    Len(lst2) = Len(lst) + 1 /\ SubSeq(lst2, 1, Len(lst)) = lst

\* C1: in every reachable state the running set holds at most MAX_CONCURRENT jobs.
C1_RunningBounded == Len(_running_jobs) <= MAX_CONCURRENT

\* the running set is full while a job waits
C1_Witness == Len(_running_jobs) = MAX_CONCURRENT /\ _download_queue # <<>>

\* C2: a job that starts while jobs wait is the head of the waiting queue, which
\* loses exactly that head; in every other step the waiting queue keeps its
\* order: it is unchanged, gains one job at its tail, or loses the entries of
\* the album a cancel names.
C2_Fifo ==
    [][ /\ \A t \in TaskIds :
              (Started(t) /\ _download_queue # <<>>)
                  => /\ tasks'[t].job = Head(_download_queue)
                     /\ _download_queue' = Tail(_download_queue)
        /\ \/ _download_queue' = _download_queue
           \/ Appended(_download_queue, _download_queue')
           \/ /\ _download_queue # <<>>
              /\ _download_queue' = Tail(_download_queue)
              /\ \E t \in TaskIds : Started(t) /\ tasks'[t].job = Head(_download_queue)
           \/ /\ ret'.op = "cancel"
              /\ _download_queue' =
                    SelectSeq(_download_queue, LAMBDA j : j.album_id # ret'.album_id)
      ]_vars

\* a finish promoted the head while another job stayed waiting
C2_Witness ==
    ret.op = "finish" /\ ret.status = "promoted" /\ _download_queue # <<>>

\* C3: enqueue_job on a non-full queue starts the job (appending it to the
\* running set and creating its task) exactly when fewer than MAX_CONCURRENT jobs
\* run, and otherwise appends it to the waiting queue and reports the former
\* waiting length as ahead; counted from an idle queue with nothing finished or
\* cancelled in between, calls 1..MAX_CONCURRENT start and call MAX_CONCURRENT + k
\* reports ahead = k - 1.
C3_Enqueue ==
    [][ (ret'.op = "enqueue" /\ Len(_download_queue) < QUEUE_LIMIT) =>
          /\ IF Len(_running_jobs) < MAX_CONCURRENT
             THEN /\ ret'.status = "started"
                  /\ Appended(_running_jobs, _running_jobs')
                  /\ _running_jobs'[Len(_running_jobs')].album_id = ret'.album_id
                  /\ _download_queue' = _download_queue
                  /\ \E t \in TaskIds :
                        /\ Started(t)
                        /\ tasks'[t].job = _running_jobs'[Len(_running_jobs')]
                        /\ \A u \in TaskIds \ {t} : tasks'[u] = tasks[u]
             ELSE /\ ret'.status = "queued"
                  /\ ret'.ahead = Len(_download_queue)
                  /\ Appended(_download_queue, _download_queue')
                  /\ _download_queue'[Len(_download_queue')].album_id = ret'.album_id
                  /\ _running_jobs' = _running_jobs
                  /\ tasks' = tasks
          /\ calls >= 0 =>
                IF calls < MAX_CONCURRENT
                THEN ret'.status = "started"
                ELSE ret'.status = "queued" /\ ret'.ahead = calls - MAX_CONCURRENT
      ]_vars

\* the fifth call in a row was queued behind two waiting jobs
C3_Witness ==
    /\ calls = MAX_CONCURRENT + 3
    /\ ret.op = "enqueue" /\ ret.status = "queued" /\ ret.ahead = 2

\* C4: enqueue_job called while QUEUE_LIMIT jobs wait returns "full" and changes
\* neither list, creates no task and leaves the locks alone.
C4_Full ==
    [][ (ret'.op = "enqueue" /\ Len(_download_queue) >= QUEUE_LIMIT) =>
          /\ ret'.status = "full"
          /\ ret'.limit = QUEUE_LIMIT
          /\ ret'.queued = Len(_download_queue)
          /\ _running_jobs' = _running_jobs
          /\ _download_queue' = _download_queue
          /\ tasks' = tasks
          /\ _upload_lock' = _upload_lock
      ]_vars

\* an enqueue was refused at capacity
C4_Witness ==
    /\ ret.op = "enqueue" /\ ret.status = "full"
    /\ Len(_download_queue) = QUEUE_LIMIT

\* C5: in every reachable state the waiting queue holds at most QUEUE_LIMIT jobs.
C5_WaitingBounded == Len(_download_queue) <= QUEUE_LIMIT

\* the waiting queue is at capacity after a job finished and one was promoted
C5_Witness ==
    /\ Len(_download_queue) = QUEUE_LIMIT
    /\ calls = -1
    /\ \E t \in TaskIds : tasks[t].pc = "upload"

\* C6 as stated: cancel_job for an album that waits and does not run removes
\* exactly one waiting entry and reports removed >= 1.
C6_RemovesExactlyOne ==
    [][ \A a \in AlbumIds :
          (ret'.op = "cancel" /\ ret'.album_id = a /\ Waits(a) /\ ~Runs(a)) =>
              /\ Len(_download_queue') = Len(_download_queue) - 1
              /\ ret'.removed >= 1
      ]_vars

\* C6 amended: cancel_job for an album that waits and does not run removes every
\* waiting entry of that album (one entry when a single one matches), keeps the
\* other entries in their order, and reports the number removed, which is >= 1,
\* and the waiting length left.
C6_RemovesEveryMatch ==
    [][ \A a \in AlbumIds :
          (ret'.op = "cancel" /\ ret'.album_id = a /\ Waits(a) /\ ~Runs(a)) =>
              LET n == Len(_download_queue)
                  gone == RemovedBefore(_download_queue, a, n)
              IN  /\ Len(_download_queue') = n - gone
                  /\ \A i \in 1..n :
                        _download_queue[i].album_id # a =>
                            _download_queue'[i - RemovedBefore(_download_queue, a, i)]
                                = _download_queue[i]
                  /\ ret'.removed = gone
                  /\ ret'.removed >= 1
                  /\ ret'.queued = n - gone
                  /\ ~ret'.running_same
      ]_vars

\* a cancel removed the entries two users had queued for one album
C6_Witness ==
    ret.op = "cancel" /\ ret.removed = 2 /\ ~ret.running_same

\* C7: cancel_job leaves the running set, the tasks and the upload lock as they
\* are; for an album that runs it reports running_same; for an album in neither
\* list it reports removed = 0 and no running_same and leaves the waiting queue
\* unchanged too.
C7_CancelFrame ==
    [][ \A a \in AlbumIds :
          (ret'.op = "cancel" /\ ret'.album_id = a) =>
              /\ _running_jobs' = _running_jobs
              /\ tasks' = tasks
              /\ _upload_lock' = _upload_lock
              /\ Runs(a) => ret'.running_same
              /\ (~Runs(a) /\ ~Waits(a)) =>
                    /\ ret'.removed = 0
                    /\ ~ret'.running_same
                    /\ _download_queue' = _download_queue
      ]_vars

\* a cancel named an album that runs and does not wait
C7_Witness ==
    /\ ret.op = "cancel" /\ ret.running_same /\ ret.removed = 0
    /\ Runs(ret.album_id)
    /\ _download_queue # <<>>

Uploading == {t \in TaskIds : tasks[t].pc = "upload"}

\* C8: at most one task is in its upload loop, and it holds the upload lock
\* from its first part to its last, so no other task uploads in between.
C8_UploadsSerialized ==
    /\ Cardinality(Uploading) <= 1
    /\ Uploading # {} => _upload_lock.locked
    /\ \A t \in TaskIds : tasks[t].pc = "lock_wait" =>
          \E i \in 1..Len(_upload_lock.waiters) : _upload_lock.waiters[i] = t

\* one job is between its parts while the other job waits for the lock
C8_Witness ==
    \E t, u \in TaskIds :
        /\ tasks[t].pc = "upload" /\ tasks[t].part = 2
        /\ tasks[u].pc = "lock_wait"

\* C9: a marked job that enqueue_job admitted is eventually done or, while it
\* waits, cancelled; it gets there only by waiting, then running in a task with
\* its job in the running set, then being finished by that task; and no job
\* waits while a running slot is free.
C9_Served ==
    /\ (track.st \in {"waiting", "running"}) ~> (track.st \in {"done", "cancelled"})
    /\ [][ /\ track.st = "waiting" => track'.st \in {"waiting", "running", "cancelled"}
           /\ track.st = "running" => track'.st \in {"running", "done"}
           /\ (track.st # "cancelled" /\ track'.st = "cancelled") => ret'.op = "cancel"
           /\ (track.st # "done" /\ track'.st = "done") =>
                 /\ ret'.op = "finish"
                 /\ InList(_running_jobs, tasks[track.at].job)
                 /\ Len(_running_jobs') <= Len(_running_jobs)
         ]_vars
    /\ [](track.st = "waiting" => track.at \in 1..Len(_download_queue))
    /\ [](track.st = "running" =>
            /\ tasks[track.at].pc # "none"
            /\ InList(_running_jobs, tasks[track.at].job))
    /\ [](_download_queue # <<>> => Len(_running_jobs) = MAX_CONCURRENT)

\* the marked job waited, was promoted and has finished
C9_Witness == track.st = "done" /\ track.waited

\* C10: no job of the waiting queue equals, by value, a job of the running set.
C10_WaitingNotRunning ==
    \A i \in 1..Len(_download_queue), k \in 1..Len(_running_jobs) :
        _download_queue[i] # _running_jobs[k]

\* ------------------------------------------------------------ comic commands
\* bot.self_id as a string, and another account
self_id == "10001"

other_id == "20002"

\* the value of a key a segment's data does not carry
None == "None"

TextSeg == [type |-> "text", data |-> [qq |-> None, id |-> None, uid |-> None]]

\* an @-mention whose data carries value v under key k only
AtSeg(k, v) ==
    [type |-> "at",
     data |-> [x \in {"qq", "id", "uid"} |-> IF x = k THEN v ELSE None]]

\* message events of user 1: in private chat, in group 1 addressed in each way
\* the platform knows or not addressed, and in group 2
MakeEvent(message_type, group_id, to_me, message) ==
    [message_type |-> message_type, group_id |-> group_id, user_id |-> 1,
     to_me |-> to_me, message |-> message]

Events ==
    { MakeEvent("private", 0, FALSE, <<TextSeg>>),
      MakeEvent("group", 1, TRUE, <<TextSeg>>),
      MakeEvent("group", 1, FALSE, <<TextSeg>>),
      MakeEvent("group", 1, FALSE, <<AtSeg("qq", self_id), TextSeg>>),
      MakeEvent("group", 1, FALSE, <<TextSeg, AtSeg("id", self_id)>>),
      MakeEvent("group", 1, FALSE, <<AtSeg("qq", other_id), AtSeg("uid", self_id)>>),
      MakeEvent("group", 1, FALSE, <<AtSeg("qq", "all"), TextSeg>>),
      MakeEvent("group", 1, FALSE, <<AtSeg("qq", other_id), TextSeg>>),
      MakeEvent("group", 2, TRUE, <<TextSeg>>) }

\* configurations of ALLOWED_GROUPS: no restriction, or group 1 only
AllowLists == { {}, {1} }

\* what re.findall(r"jm\s*(\d+)", text) yields for the download messages:
\* `jm1 jm1 jm2` and `jm2 jm1 jm2`
Matches == { <<1, 1, 2>>, <<2, 1, 2>> }

\* _should_block_event: `qq = seg.data.get("qq") or seg.data.get("id") or
\* seg.data.get("uid")`
at_target(data) ==
    IF data.qq # None THEN data.qq
    ELSE IF data.id # None THEN data.id
    ELSE data.uid

\* _should_block_event: `str(qq) in ("all", str(bot.self_id))`
at_names_bot_self_only(qq) == qq = self_id

at_names_bot(qq) == qq \in {"all", self_id}

\* _should_block_event: the loop over event.message
RECURSIVE scan_segments(_)
scan_segments(message) ==
    IF message = <<>> THEN FALSE
    ELSE IF Head(message).type # "at" THEN scan_segments(Tail(message))
    ELSE IF at_names_bot(at_target(Head(message).data)) THEN TRUE
    ELSE scan_segments(Tail(message))

\* _should_block_event(bot, event) under the allow-list `allowed`
should_block_event(event, allowed) ==
    IF event.message_type # "group" THEN FALSE
    ELSE IF allowed # {} /\ event.group_id \notin allowed THEN TRUE
    ELSE LET to_me == event.to_me
             mentioned == IF ~to_me THEN scan_segments(event.message) ELSE to_me
         IN  ~mentioned

\* jm_forward_cmd: the loop that fills `ids` from the matches, `seen` holding
\* the ids met so far
collect_ids_all(matches, ids, seen) == matches

RECURSIVE collect_ids(_, _, _)
collect_ids(matches, ids, seen) ==
    IF matches = <<>> THEN ids
    ELSE IF Head(matches) \notin seen
    THEN collect_ids(Tail(matches), Append(ids, Head(matches)),
                     seen \cup {Head(matches)})
    ELSE collect_ids(Tail(matches), ids, seen)

\* the queue state one enqueue_job call leaves, for a handler that makes
\* several calls in a row: s holds the lists, the tasks, the call's return
\* value and the call counter
enqueue_call(s, event, album_id) ==
    LET job == MakeJob(event, album_id)
        called == [NoRet EXCEPT !.op = "enqueue", !.album_id = album_id]
    IN
    IF queue_is_full(s.queue)
    THEN [s EXCEPT !.ret = [called EXCEPT !.status = "full", !.limit = QUEUE_LIMIT,
                                          !.queued = Len(s.queue)],
                   !.calls = -1]
    ELSE IF enqueue_can_start(s.running)
    THEN [s EXCEPT !.running = Append(s.running, job),
                   !.tasks = create_task(s.tasks, job),
                   !.ret = [called EXCEPT !.status = "started", !.ahead = 0],
                   !.calls = IF s.calls >= 0 THEN s.calls + 1 ELSE s.calls]
    ELSE [s EXCEPT !.queue = Append(s.queue, job),
                   !.ret = [called EXCEPT !.status = "queued",
                                          !.ahead = ahead_of(s.queue)],
                   !.calls = IF s.calls >= 0 THEN s.calls + 1 ELSE s.calls]

\* jm_forward_cmd: `if result["status"] == "full": ...; break`
stops_on_full_never(status) == FALSE

stops_on_full(status) == status = "full"

\* jm_forward_cmd: the line appended to `responses` for one result
response_line(album_id, result) ==
    IF result.status = "full"
    THEN [kind |-> "full", album_id |-> 0, n |-> result.limit]
    ELSE IF result.status = "started"
    THEN [kind |-> "started", album_id |-> album_id, n |-> 0]
    ELSE [kind |-> "queued", album_id |-> album_id, n |-> result.ahead]

\* jm_forward_cmd: `for album_id in ids`, s also holding the ids passed to
\* enqueue_job and the responses so far
RECURSIVE enqueue_loop(_, _, _)
enqueue_loop(s, event, ids) ==
    IF ids = <<>> THEN s
    ELSE LET s1 == enqueue_call(s, event, Head(ids))
             s2 == [s1 EXCEPT !.enqueued = Append(@, Head(ids)),
                              !.responses = Append(@, response_line(Head(ids), s1.ret))]
         IN  IF stops_on_full(s1.ret.status) THEN s2
             ELSE enqueue_loop(s2, event, Tail(ids))

\* a handler returns through finish() with no message: nothing is sent and
\* nothing changes
dropped(h) ==
    /\ handled' = h
    /\ ret' = NoRet
    /\ UNCHANGED <<_running_jobs, _download_queue, _upload_lock, tasks, calls,
                   track, jm_ENABLED, ALLOWED_GROUPS>>

\* the handler of jm_forward_cmd for a message whose text holds `matches`
jm_forward_cmd(event, matches) ==
    LET ids == collect_ids(matches, <<>>, {})
        h == [NoHandled EXCEPT !.cmd = "download", !.event = event,
                               !.matches = matches, !.enabled = jm_ENABLED]
        hb == [h EXCEPT !.checked = TRUE,
                        !.blocked = should_block_event(event, ALLOWED_GROUPS)]
        s == enqueue_loop([running |-> _running_jobs, queue |-> _download_queue,
                           tasks |-> tasks, ret |-> NoRet, calls |-> calls,
                           enqueued |-> <<>>, responses |-> <<>>], event, ids)
    IN
    IF ids = <<>> THEN dropped(h)
    ELSE IF ~jm_ENABLED THEN dropped(h)
    ELSE IF hb.blocked THEN dropped(hb)
    ELSE /\ _running_jobs' = s.running
         /\ _download_queue' = s.queue
         /\ tasks' = s.tasks
         /\ ret' = s.ret
         /\ calls' = s.calls
         /\ handled' = [hb EXCEPT !.enqueued = s.enqueued, !.replied = TRUE,
                                  !.reply = s.responses]
         /\ UNCHANGED <<_upload_lock, track, jm_ENABLED, ALLOWED_GROUPS>>

\* queue_snapshot(): the album ids of a list of jobs
album_ids(lst) == [i \in 1..Len(lst) |-> lst[i].album_id]

\* the handler of queue_cmd
queue_cmd(event) ==
    LET h == [NoHandled EXCEPT !.cmd = "queue", !.event = event,
                               !.enabled = jm_ENABLED]
        hb == [h EXCEPT !.checked = TRUE,
                        !.blocked = should_block_event(event, ALLOWED_GROUPS)]
        running_ids == album_ids(_running_jobs)
        queued_ids == album_ids(_download_queue)
    IN
    IF ~jm_ENABLED THEN dropped(h)
    ELSE IF hb.blocked THEN dropped(hb)
    ELSE /\ handled' =
               [hb EXCEPT !.replied = TRUE,
                   !.reply = IF running_ids = <<>> /\ queued_ids = <<>>
                             THEN <<[kind |-> "empty"]>>
                             ELSE <<[kind |-> "running", ids |-> running_ids,
                                     of |-> MAX_CONCURRENT],
                                    [kind |-> "waiting", ids |-> queued_ids]>>]
         /\ ret' = NoRet
         /\ UNCHANGED <<_running_jobs, _download_queue, _upload_lock, tasks,
                        calls, track, jm_ENABLED, ALLOWED_GROUPS>>

\* the handler of help_cmd
help_cmd(event) ==
    LET h == [NoHandled EXCEPT !.cmd = "help", !.event = event,
                               !.enabled = jm_ENABLED]
        hb == [h EXCEPT !.checked = TRUE,
                        !.blocked = should_block_event(event, ALLOWED_GROUPS)]
    IN
    IF ~jm_ENABLED THEN dropped(h)
    ELSE IF hb.blocked THEN dropped(hb)
    ELSE /\ handled' = [hb EXCEPT !.replied = TRUE, !.reply = <<[kind |-> "help"]>>]
         /\ ret' = NoRet
         /\ UNCHANGED <<_running_jobs, _download_queue, _upload_lock, tasks,
                        calls, track, jm_ENABLED, ALLOWED_GROUPS>>

\* the handler of remove_cmd for `jm取消<album_id>`
remove_cmd(event, album_id) ==
    LET h == [NoHandled EXCEPT !.cmd = "cancel", !.event = event,
                               !.matches = <<album_id>>, !.enabled = jm_ENABLED]
        hb == [h EXCEPT !.checked = TRUE,
                        !.blocked = should_block_event(event, ALLOWED_GROUPS)]
    IN
    IF ~jm_ENABLED THEN dropped(h)
    ELSE IF hb.blocked THEN dropped(hb)
    ELSE /\ cancel_job(album_id)
         /\ handled' =
               [hb EXCEPT !.replied = TRUE,
                   !.reply = IF ret'.removed > 0
                             THEN <<[kind |-> "removed", album_id |-> album_id,
                                     n |-> ret'.queued]>>
                             ELSE IF ret'.running_same
                             THEN <<[kind |-> "running", album_id |-> album_id, n |-> 0]>>
                             ELSE <<[kind |-> "absent", album_id |-> album_id, n |-> 0]>>]
         /\ UNCHANGED <<jm_ENABLED, ALLOWED_GROUPS>>

\* the handler of toggle_cmd; on says whether the text holds `开启` or `start`
toggle_cmd(event, on) ==
    LET h == [NoHandled EXCEPT !.cmd = "toggle", !.event = event,
                               !.enabled = jm_ENABLED]
        hb == [h EXCEPT !.checked = TRUE,
                        !.blocked = should_block_event(event, ALLOWED_GROUPS)]
    IN
    IF hb.blocked THEN dropped(hb)
    ELSE /\ jm_ENABLED' = on
         /\ handled' = [hb EXCEPT !.replied = TRUE,
                           !.reply = <<[kind |-> IF on THEN "on" ELSE "off"]>>]
         /\ ret' = NoRet
         /\ UNCHANGED <<_running_jobs, _download_queue, _upload_lock, tasks,
                        calls, track, ALLOWED_GROUPS>>

\* the plugin under some configuration of the allow-list
InitRouter ==
    /\ InitQueue
    /\ jm_ENABLED = TRUE
    /\ ALLOWED_GROUPS \in AllowLists
    /\ handled = NoHandled
    /\ InitIdle
    /\ InitPixiv
    /\ InitRest

Download ==
    \E e \in Events, m \in Matches :
        /\ Len(_download_queue) < MaxBacklog
        /\ jm_forward_cmd(e, m)
        /\ UNCHANGED routerOther

QueueStatus == \E e \in Events : queue_cmd(e) /\ UNCHANGED routerOther

Help == \E e \in Events : help_cmd(e) /\ UNCHANGED routerOther

Remove ==
    \E e \in Events, a \in AlbumIds : remove_cmd(e, a) /\ UNCHANGED routerOther

Toggle == \E e \in Events, on \in BOOLEAN : toggle_cmd(e, on) /\ UNCHANGED routerOther

NextRouter == Download \/ QueueStatus \/ Help \/ Remove \/ Toggle

SpecRouter == InitRouter /\ [][NextRouter]_vars

\* one user of group 1 who addresses the bot fills the waiting queue to its
\* capacity with the message `jm1 jm2 jm1 jm3`, and cancels albums
FillEvent == MakeEvent("group", 1, TRUE, <<TextSeg>>)

FillMatches == <<1, 2, 1, 3>>

DownloadFull == jm_forward_cmd(FillEvent, FillMatches) /\ UNCHANGED routerOther

RemoveFull ==
    \E a \in AlbumIds : remove_cmd(FillEvent, a) /\ UNCHANGED routerOther

NextRouterFull == DownloadFull \/ RemoveFull

SpecRouterFull == InitRouter /\ [][NextRouterFull]_vars

\* ------------------------------------------------------------ properties
\* the @-segments of a message that name the bot's own account or "all"
MentionsBot(message) ==
    \E i \in 1..Len(message) :
        /\ message[i].type = "at"
        /\ \E k \in {"qq", "id", "uid"} : message[i].data[k] \in {"all", self_id}

\* position of the first occurrence of an id in the matches of a message
FirstSeen(matches, a) ==
    CHOOSE i \in 1..Len(matches) :
        matches[i] = a /\ \A k \in 1..(i - 1) : matches[k] # a

\* C11: while the comic plugin's ENABLED flag is false, a command handler of any
\* of the five shapes (download, queue status, cancel, help, toggle) sends no
\* reply and changes neither the running list, the waiting queue nor the flag.
C11_DisabledDropsAll ==
    [][ ~jm_ENABLED =>
            /\ ~handled'.replied
            /\ _running_jobs' = _running_jobs
            /\ _download_queue' = _download_queue
            /\ jm_ENABLED' = jm_ENABLED ]_vars

\* C12: should_block_event is false for every private message; for a group
\* message it is true exactly when the allow-list is non-empty and does not
\* hold the group, or the message has neither the to-me flag nor an @-mention
\* of the bot's own id or of "all".
C12_BlockRule ==
    handled.checked =>
        LET e == handled.event IN
        /\ e.message_type = "private" => ~handled.blocked
        /\ e.message_type = "group" =>
              (handled.blocked <=>
                  \/ ALLOWED_GROUPS # {} /\ e.group_id \notin ALLOWED_GROUPS
                  \/ ~e.to_me /\ ~MentionsBot(e.message))

\* a group message with the to-me flag is blocked by the allow-list
C12_Witness ==
    /\ handled.checked
    /\ handled.blocked
    /\ handled.event.message_type = "group"
    /\ handled.event.to_me
    /\ ALLOWED_GROUPS # {}

\* C13: a download message passes each distinct album id of its text to
\* enqueue_job at most once, in the order of first occurrence, and the lists
\* gain exactly those jobs; `jm1 jm1 jm2` enqueues two jobs, 1 then 2.
C13_OncePerId ==
    [][ (handled'.cmd = "download" /\ handled'.replied) =>
            LET ids == handled'.enqueued
                m == handled'.matches
            IN  /\ \A i, j \in 1..Len(ids) : i < j =>
                      /\ ids[i] # ids[j]
                      /\ FirstSeen(m, ids[i]) < FirstSeen(m, ids[j])
                /\ \A i \in 1..Len(ids) : \E k \in 1..Len(m) : m[k] = ids[i]
                /\ album_ids(_running_jobs' \o _download_queue') =
                      album_ids(_running_jobs \o _download_queue) \o ids
                /\ m = <<1, 1, 2>> => ids = <<1, 2>> ]_vars

\* `jm2 jm1 jm2` enqueued album 2, then album 1
C13_Witness ==
    /\ handled.cmd = "download"
    /\ handled.replied
    /\ handled.matches = <<2, 1, 2>>
    /\ handled.enqueued = <<2, 1>>
    /\ album_ids(_download_queue) = <<2, 1>>

\* C14: once enqueue_job returns "full" for an id of a download message, no
\* later id of the message is passed to enqueue_job: the full call is the last
\* call; the one reply holds a status line for each id admitted before it, in
\* order, then the queue-full notice, and the lists gain the admitted jobs only.
C14_StopsAtFull ==
    [][ (handled'.cmd = "download" /\ handled'.replied) =>
            LET ids == handled'.enqueued
                lines == handled'.reply
                n == Len(lines)
                admitted == IF lines[n].kind = "full" THEN SubSeq(ids, 1, n - 1)
                            ELSE ids
            IN  /\ Len(ids) = n
                /\ \A i \in 1..n :
                      IF i <= Len(admitted)
                      THEN /\ lines[i].kind \in {"started", "queued"}
                           /\ lines[i].album_id = ids[i]
                      ELSE /\ lines[i].kind = "full"
                           /\ lines[i].n = QUEUE_LIMIT
                           /\ Len(_download_queue) + Len(admitted) = QUEUE_LIMIT
                /\ album_ids(_running_jobs' \o _download_queue') =
                      album_ids(_running_jobs \o _download_queue) \o admitted
                /\ ret'.status = "full" <=> lines[n].kind = "full" ]_vars

\* `jm1 jm2 jm1 jm3` met the full queue at its second id: album 1 was admitted,
\* album 2 was refused and album 3 was never passed on
C14_Witness ==
    /\ handled.cmd = "download"
    /\ handled.matches = FillMatches
    /\ handled.enqueued = <<1, 2>>
    /\ Len(handled.reply) = 2
    /\ handled.reply[1].kind = "queued"
    /\ handled.reply[2].kind = "full"
    /\ Len(_download_queue) = QUEUE_LIMIT

\* ------------------------------------------------------------ upload timeout
\* a timeout is kept in ticks of 1 / (2 * 1024 * 1024) second, the unit in which
\* `(size_mb - 100) * 0.5` of a whole number of bytes is a whole number: the
\* float operations of _calc_upload_timeout on these values are exact
TicksPerSecond == 2 * MB

Seconds(n) == n * TicksPerSecond

Min(a, b) == IF a <= b THEN a ELSE b

\* file sizes in bytes: the multiples of ten megabytes up to the bound, and one
\* byte less and more
FileSizes ==
    { k * 10 * MB + d : k \in 0..MaxTenMB, d \in {-1, 0, 1} } \ {-1}

\* _calc_upload_timeout: `min(300.0, ...)`
capped_never(ticks) == ticks

capped(ticks) == Min(Seconds(TIMEOUT_CAP), ticks)

\* _calc_upload_timeout(pdf_path) for a file of st_size bytes; size_mb is
\* st_size / MB, so `size_mb <= 100` compares st_size with 100 * MB and
\* `(size_mb - 100) * 0.5` seconds are st_size - 100 * MB ticks
_calc_upload_timeout(st_size) ==
    IF st_size <= LARGE_FILE_MB * MB
    THEN Seconds(API_TIMEOUT)
    ELSE capped(Seconds(API_TIMEOUT) + (st_size - LARGE_FILE_MB * MB))

\* a file of some size is about to be uploaded
InitTimeout ==
    /\ InitQueue
    /\ InitComic
    /\ pdf_size \in FileSizes
    /\ upload_timeout = NoTimeout
    /\ chapter = NoChapter
    /\ merged = <<>>
    /\ final_paths = <<>>
    /\ pdf_dir = {}
    /\ InitPixiv
    /\ InitRest

CalcTimeout ==
    /\ ~upload_timeout.set
    /\ upload_timeout' = [set |-> TRUE, ticks |-> _calc_upload_timeout(pdf_size)]
    /\ UNCHANGED <<queueVars, comicVars, buildVars, pixivVars, restVars, pdf_size>>

NextTimeout == CalcTimeout

SpecTimeout == InitTimeout /\ [][NextTimeout]_vars

\* ------------------------------------------------------------ properties
\* C15 as claimed: the base API_TIMEOUT up to 100 MB, above it the smaller of
\* 300 and API_TIMEOUT + (size_MB - 100) * 0.5; the base for 50 MB, base + 25
\* for 150 MB, and 300 for 500 MB.
C15_TimeoutAsClaimed ==
    upload_timeout.set =>
        LET t == upload_timeout.ticks
            over == pdf_size - LARGE_FILE_MB * MB
        IN  /\ pdf_size <= LARGE_FILE_MB * MB => t = Seconds(API_TIMEOUT)
            /\ pdf_size > LARGE_FILE_MB * MB =>
                  /\ t <= Seconds(TIMEOUT_CAP)
                  /\ t <= Seconds(API_TIMEOUT) + over
                  /\ t = Seconds(TIMEOUT_CAP) \/ t = Seconds(API_TIMEOUT) + over
            /\ pdf_size = 50 * MB => t = Seconds(API_TIMEOUT)
            /\ pdf_size = 150 * MB => t = Seconds(API_TIMEOUT + 25)
            /\ pdf_size = 500 * MB => t = Seconds(TIMEOUT_CAP)

\* C15, amended: the base API_TIMEOUT up to 100 MB, above it the smaller of 300
\* and API_TIMEOUT + (size_MB - 100) * 0.5; with the base of 60 that is the base
\* for 50 MB, base + 25 for 150 MB and base + 200 = 260 for 500 MB; the cap of
\* 300 is reached from 580 MB on.
C15_Timeout ==
    upload_timeout.set =>
        LET t == upload_timeout.ticks
            over == pdf_size - LARGE_FILE_MB * MB
        IN  /\ pdf_size <= LARGE_FILE_MB * MB => t = Seconds(API_TIMEOUT)
            /\ pdf_size > LARGE_FILE_MB * MB =>
                  /\ t <= Seconds(TIMEOUT_CAP)
                  /\ t <= Seconds(API_TIMEOUT) + over
                  /\ t = Seconds(TIMEOUT_CAP) \/ t = Seconds(API_TIMEOUT) + over
            /\ pdf_size = 50 * MB => t = Seconds(API_TIMEOUT)
            /\ pdf_size = 150 * MB => t = Seconds(API_TIMEOUT + 25)
            /\ pdf_size = 500 * MB => t = Seconds(API_TIMEOUT + 200)
            /\ t = Seconds(TIMEOUT_CAP) <=> pdf_size >= 580 * MB

\* the timeout of a 500 MB file has been computed: 260 seconds
C15_Witness ==
    /\ upload_timeout.set
    /\ pdf_size = 500 * MB
    /\ upload_timeout.ticks = Seconds(260)

\* ------------------------------------------------------------ PDF build
\* a file name is the sequence of its characters
PartTag == <<"_", "p", "a", "r", "t">>

OfTag == <<"o", "f">>

PdfSuffix == <<".", "p", "d", "f">>

DigitChars == <<"0", "1", "2", "3", "4", "5", "6", "7", "8", "9">>

\* str(n) of a natural number
RECURSIVE Digits(_)
Digits(n) ==
    IF n < 10 THEN <<DigitChars[n + 1]>>
    ELSE Digits(n \div 10) \o <<DigitChars[(n % 10) + 1]>>

\* the format `{n:03d}`: zeros in front up to three characters
Pad3(n) ==
    LET d == Digits(n)
    IN  IF Len(d) >= 3 THEN d ELSE [i \in 1..(3 - Len(d)) |-> "0"] \o d

\* Path(filename).suffix: from the last dot on, unless the name has no dot,
\* starts with its only dot or ends with a dot
Suffix(filename) ==
    LET dots == {i \in 1..Len(filename) : filename[i] = "."}
    IN  IF dots = {} THEN <<>>
        ELSE LET last == CHOOSE i \in dots : \A k \in dots : k <= i
             IN  IF last = 1 \/ last = Len(filename) THEN <<>>
                 ELSE SubSeq(filename, last, Len(filename))

\* _clamp_filename_length(filename, max_len)
_clamp_filename_length(filename, max_len) ==
    IF Len(filename) <= max_len THEN filename
    ELSE LET suffix == Suffix(filename) IN
         IF suffix # <<>> /\ Len(suffix) < max_len
         THEN LET base == SubSeq(filename, 1, Len(filename) - Len(suffix))
                  max_base_len == max_len - Len(suffix)
              IN  IF max_base_len <= 0 THEN SubSeq(filename, 1, max_len)
                  ELSE SubSeq(base, 1, Min(max_base_len, Len(base))) \o suffix
         ELSE SubSeq(filename, 1, max_len)

\* _final_pdf_name(base_name, idx, total)
_final_pdf_name(base_name, idx, total) ==
    IF total <= 1 THEN base_name \o PdfSuffix
    ELSE base_name \o PartTag \o Pad3(idx) \o OfTag \o Digits(total) \o PdfSuffix

\* _split_images(imgs, max_per_pdf): each batch is the slice of imgs that
\* starts at `start` and holds `len` images
_split_images(imgs, max_per_pdf) ==
    IF max_per_pdf <= 0 \/ Len(imgs) <= max_per_pdf
    THEN <<[start |-> 1, len |-> Len(imgs)]>>
    ELSE [k \in 1..((Len(imgs) + max_per_pdf - 1) \div max_per_pdf) |->
            [start |-> (k - 1) * max_per_pdf + 1,
             len |-> Min(max_per_pdf, Len(imgs) - (k - 1) * max_per_pdf)]]

\* the size of the file merge_to_pdf writes for a batch: img2pdf embeds the
\* image files as they are, so the file is as large as its images together
RECURSIVE merged_size(_, _, _)
merged_size(imgs, start, len) ==
    IF len = 0 THEN 0
    ELSE IF len = 1 THEN imgs[start]
    ELSE merged_size(imgs, start, len \div 2)
            + merged_size(imgs, start + len \div 2, len - len \div 2)

\* _emit_batch: `if size <= max_bytes or len(batch) <= 1`
fits_always(size, len) == TRUE

fits(size, len) == size <= MAX_PDF_SIZE_MB * MB \/ len <= 1

\* _emit_batch(batch); acc holds tmp_paths and the merges made so far
RECURSIVE _emit_batch(_, _, _)
_emit_batch(imgs, batch, acc) ==
    LET size == merged_size(imgs, batch.start, batch.len)
        made == [acc EXCEPT !.merged =
                    Append(@, [start |-> batch.start, len |-> batch.len,
                               size |-> size, tmp |-> Len(acc.tmp_paths)])]
        mid == batch.len \div 2
    IN  IF fits(size, batch.len)
        THEN [made EXCEPT !.tmp_paths =
                 Append(@, [start |-> batch.start, len |-> batch.len, size |-> size])]
        ELSE _emit_batch(imgs, [start |-> batch.start + mid, len |-> batch.len - mid],
                 _emit_batch(imgs, [start |-> batch.start, len |-> mid], made))

\* _build_pdfs_with_limits: `for batch in batches: _emit_batch(batch)`
RECURSIVE emit_all(_, _, _)
emit_all(imgs, batches, acc) ==
    IF batches = <<>> THEN acc
    ELSE emit_all(imgs, Tail(batches), _emit_batch(imgs, Head(batches), acc))

\* _build_pdfs_with_limits(imgs, pdf_dir, base_name, timing): the merges it
\* makes and the entries it returns, each with the images and the size of the
\* temporary file renamed to its path
_build_pdfs_with_limits(imgs, base_name) ==
    LET acc == emit_all(imgs, _split_images(imgs, MAX_IMAGES_PER_PDF),
                        [tmp_paths |-> <<>>, merged |-> <<>>])
        total == Len(acc.tmp_paths)
    IN  [merged |-> acc.merged,
         final_paths |->
            [idx \in 1..total |->
                [path |-> _clamp_filename_length(
                              _final_pdf_name(base_name, idx, total),
                              MAX_PDF_NAME_LENGTH),
                 part_idx |-> idx, part_total |-> total,
                 start |-> acc.tmp_paths[idx].start,
                 len |-> acc.tmp_paths[idx].len,
                 size |-> acc.tmp_paths[idx].size]]]

\* the files the renames leave in pdf_dir: `tmp_path.replace(final_path)` after
\* `final_path.unlink()` puts part idx at its path, in place of an earlier
\* part renamed to the same path
files_after(paths) ==
    { [path |-> paths[i].path, part_idx |-> i] :
        i \in {k \in 1..Len(paths) :
                 \A m \in (k + 1)..Len(paths) : paths[m].path # paths[k].path} }

\* chapters: n images of one size, or of the light size but for a heavy one
Uniform(n, size) == [i \in 1..n |-> size]

OneHeavy(n, at, light, heavy) == [i \in 1..n |-> IF i = at THEN heavy ELSE light]

\* an image of a quarter megabyte (MAX_IMAGES_PER_PDF of them fill
\* MAX_PDF_SIZE_MB exactly), one byte more, and an image beyond the size limit
LightImage == MB \div 4

HeavyImage == (MAX_PDF_SIZE_MB + 10) * MB

ImageCounts ==
    { 1, 2, MAX_IMAGES_PER_PDF - 1, MAX_IMAGES_PER_PDF, MAX_IMAGES_PER_PDF + 1,
      MAX_IMAGES_PER_PDF + MaxExtra, 2 * MAX_IMAGES_PER_PDF,
      2 * MAX_IMAGES_PER_PDF + 1 }

Chapters ==
    { Uniform(n, s) : n \in ImageCounts, s \in {LightImage, LightImage + 1} }
      \cup { Uniform(n, HeavyImage) : n \in 1..3 }
      \cup { OneHeavy(MAX_IMAGES_PER_PDF + MaxExtra, at, LightImage, HeavyImage) :
                at \in {1, MAX_IMAGES_PER_PDF, MAX_IMAGES_PER_PDF + MaxExtra} }

\* base_name of n characters
BaseNames == { [i \in 1..n |-> "x"] : n \in 1..MaxBaseLen }

\* a chapter is about to be built
InitBuild ==
    /\ InitQueue
    /\ InitComic
    /\ pdf_size = 0
    /\ upload_timeout = NoTimeout
    /\ chapter \in [imgs : Chapters, base_name : BaseNames]
    /\ merged = <<>>
    /\ final_paths = <<>>
    /\ pdf_dir = {}
    /\ InitPixiv
    /\ InitRest

Build ==
    /\ final_paths = <<>>
    /\ LET built == _build_pdfs_with_limits(chapter.imgs, chapter.base_name)
       IN  /\ merged' = built.merged
           /\ final_paths' = built.final_paths
           /\ pdf_dir' = files_after(built.final_paths)
    /\ UNCHANGED <<queueVars, comicVars, timeoutVars, pixivVars, restVars, chapter>>

NextBuild == Build

SpecBuild == InitBuild /\ [][NextBuild]_vars

\* ------------------------------------------------------------ properties
\* name ends with the characters of tail
EndsWith(name, tail) ==
    /\ Len(name) >= Len(tail)
    /\ SubSeq(name, Len(name) - Len(tail) + 1, Len(name)) = tail

\* a merged batch that is over the size limit and holds more than one image
Oversized(m) == m.size > MAX_PDF_SIZE_MB * MB /\ m.len > 1

\* C16: a chapter with more images than MAX_IMAGES_PER_PDF is built into at
\* least two parts, and the final name of every part ends with
\* `_part<NNN>of<MMM>.pdf`, index and total zero-padded to three digits,
\* whatever the length of the base name.
C16_PartNames ==
    (final_paths # <<>> /\ Len(chapter.imgs) > MAX_IMAGES_PER_PDF) =>
        /\ Len(final_paths) >= 2
        /\ \A i \in 1..Len(final_paths) :
              EndsWith(final_paths[i].path,
                       PartTag \o Pad3(i) \o OfTag \o Pad3(Len(final_paths))
                           \o PdfSuffix)

\* C17: every part the build returns holds at most MAX_IMAGES_PER_PDF images
\* and is within MAX_PDF_SIZE_MB or holds exactly one image; a merged batch
\* over the size limit with more than one image is dropped and its two halves
\* are merged in its place, any other batch, a single image of any size
\* included, becomes a part; the parts hold the chapter's images in order.
C17_PartLimits ==
    final_paths # <<>> =>
        /\ \A i \in 1..Len(final_paths) :
              /\ final_paths[i].len <= MAX_IMAGES_PER_PDF
              /\ \/ final_paths[i].size <= MAX_PDF_SIZE_MB * MB
                 \/ final_paths[i].len = 1
        /\ \A k \in 1..Len(merged) :
              LET m == merged[k]
                  kept == \E i \in 1..Len(final_paths) :
                              /\ final_paths[i].start = m.start
                              /\ final_paths[i].len = m.len
              IN  IF Oversized(m)
                  THEN /\ ~kept
                       /\ k < Len(merged)
                       /\ merged[k + 1].start = m.start
                       /\ merged[k + 1].len = m.len \div 2
                       /\ \E j \in (k + 2)..Len(merged) :
                             /\ merged[j].start = m.start + m.len \div 2
                             /\ merged[j].len = m.len - m.len \div 2
                  ELSE kept
        /\ final_paths[1].start = 1
        /\ \A i \in 1..(Len(final_paths) - 1) :
              final_paths[i + 1].start = final_paths[i].start + final_paths[i].len
        /\ LET last == final_paths[Len(final_paths)]
           IN  last.start + last.len = Len(chapter.imgs) + 1

\* a batch was dropped for its size and split, and the heavy image ended up as
\* a part of its own that is over the size limit
C17_Witness ==
    /\ final_paths # <<>>
    /\ \E k \in 1..Len(merged) : Oversized(merged[k])
    /\ \E i \in 1..Len(final_paths) :
          /\ final_paths[i].len = 1
          /\ final_paths[i].size > MAX_PDF_SIZE_MB * MB
    /\ \E i \in 1..Len(final_paths) : final_paths[i].len > 1

\* ------------------------------------------------------------ Pixiv service
\* what api.auth(refresh_token=token) does: it returns or raises
AuthOutcomes == {"ok", "fail"}

\* the ids of the n works of a result: no id is an index, and results of
\* different lengths hold different works
Illusts(n) == [i \in 1..n |-> 100 * n + i]

\* what api.search_illust and api.illust_ranking do: raise, or return a result
\* with its illusts (none, fewer than any limit, more than the default limit)
\* and its error indicator
ApiRaises == [raises |-> TRUE, illusts |-> <<>>, error |-> FALSE]

ListResults ==
    {ApiRaises} \cup
    { [raises |-> FALSE, illusts |-> Illusts(n), error |-> e] :
        n \in {0, 2}, e \in BOOLEAN } \cup
    { [raises |-> FALSE, illusts |-> Illusts(DEFAULT_LIMIT + MaxOver),
       error |-> FALSE] }

\* the limits callers ask for
Limits == {1, DEFAULT_LIMIT}

\* what api.illust_detail does: raise, or return the work, an error that names
\* the token, another error, or neither work nor error
DetailResults == {"raise", "found", "token_error", "other_error", "missing"}

\* what creating the directory and downloading the pages of a work does
DownloadOutcomes == {"ok", "raise"}

\* the instants at which the clock is read: around every multiple of
\* AUTH_MAX_AGE after the start
Instants ==
    { StartTime + k * AUTH_MAX_AGE + d : k \in 0..MaxPeriods, d \in {-1, 0, 1} }
        \ { StartTime - 1 }

\* _do_auth(api) at time `now`: the new _last_auth_time and how it ended; it
\* raises RuntimeError when the token file does not exist
_do_auth(last, outcome) ==
    IF token_file
    THEN IF outcome = "ok" THEN [last |-> now, res |-> "ok"]
         ELSE [last |-> last, res |-> "failed"]
    ELSE [last |-> last, res |-> "no_token"]

\* _get_api: `time.time() - _last_auth_time > 3000`
is_stale_ge(t, last) == t - last >= AUTH_MAX_AGE

is_stale(t, last) == t - last > AUTH_MAX_AGE

\* _get_api(force_reauth) within a call whose progress is s: the session, the
\* authentication time, the _get_api calls made so far and whether it raised
_get_api(s, force_reauth, outcome) ==
    LET a == _do_auth(s.last, outcome)
        made(auth) ==
            Append(s.gets, [force |-> force_reauth, now |-> now,
                            last |-> s.last, auth |-> auth, api |-> s.api])
    IN  IF s.api = 0
        THEN [api |-> 1, last |-> a.last, gets |-> made(a.res),
              raised |-> a.res = "no_token"]
        ELSE IF force_reauth \/ is_stale(now, s.last)
        THEN [api |-> s.api, last |-> a.last, gets |-> made(a.res),
              raised |-> a.res = "no_token"]
        ELSE [api |-> s.api, last |-> s.last, gets |-> made("none"),
              raised |-> FALSE]

\* the progress of a call that starts now
Entered == [api |-> _api, last |-> _last_auth_time, gets |-> <<>>, raised |-> FALSE]

\* pixiv_search, pixiv_ranking: `not result.illusts and hasattr(result,
\* 'error') and result.error`
needs_retry_never(result) == FALSE

needs_retry(result) == result.illusts = <<>> /\ result.error

\* `result.illusts[:limit] if result.illusts else []` for a limit of at least 0
first_results(illusts, limit) ==
    IF illusts = <<>> THEN <<>>
    ELSE SubSeq(illusts, 1, Min(limit, Len(illusts)))

\* the call ends: the session state it leaves and what the observer saw
call_ends(s, seen) ==
    /\ _api' = s.api
    /\ _last_auth_time' = s.last
    /\ px' = [seen EXCEPT !.gets = s.gets]
    /\ UNCHANGED <<now, token_file>>

\* pixiv_search(keyword, limit) and pixiv_ranking(mode, limit), which differ in
\* the API method only
list_call(op, limit) ==
    \E o1 \in AuthOutcomes :
    LET seen == [NoPx EXCEPT !.op = op, !.limit = limit]
        s1 == _get_api(Entered, FALSE, o1)
    IN  IF s1.raised THEN call_ends(s1, [seen EXCEPT !.raised = TRUE])
        ELSE \E r1 \in ListResults :
             LET seen1 == [seen EXCEPT !.api_calls = <<r1>>] IN
             IF r1.raises THEN call_ends(s1, [seen1 EXCEPT !.raised = TRUE])
             ELSE IF needs_retry(r1)
             THEN \E o2 \in AuthOutcomes :
                  LET s2 == _get_api(s1, TRUE, o2) IN
                  IF s2.raised THEN call_ends(s2, [seen1 EXCEPT !.raised = TRUE])
                  ELSE \E r2 \in ListResults :
                       LET seen2 == [seen EXCEPT !.api_calls = <<r1, r2>>] IN
                       IF r2.raises
                       THEN call_ends(s2, [seen2 EXCEPT !.raised = TRUE])
                       ELSE call_ends(s2, [seen2 EXCEPT !.illusts =
                                first_results(r2.illusts, limit)])
             ELSE call_ends(s1, [seen1 EXCEPT !.illusts =
                      first_results(r1.illusts, limit)])

pixiv_search(limit) == list_call("search", limit)

pixiv_ranking(limit) == list_call("ranking", limit)

\* pixiv_detail(illust_id)
pixiv_detail ==
    \E o1 \in AuthOutcomes :
    LET seen == [NoPx EXCEPT !.op = "detail"]
        s1 == _get_api(Entered, FALSE, o1)
    IN  IF s1.raised THEN call_ends(s1, [seen EXCEPT !.raised = TRUE])
        ELSE \E r1 \in DetailResults \ {"token_error"} :
             LET seen1 == [seen EXCEPT !.api_calls = <<r1>>] IN
             IF r1 = "raise" THEN call_ends(s1, [seen1 EXCEPT !.raised = TRUE])
             ELSE call_ends(s1, [seen1 EXCEPT !.success = (r1 = "found")])

\* pixiv_download: `'invalid_grant' in error_msg.lower() or 'token' in
\* error_msg.lower()`
is_token_error(result) == result = "token_error"

\* pixiv_download after the detail calls: the result it returns for the last
\* detail result
download_result(s, seen, result) ==
    IF result \in {"token_error", "other_error"}
    THEN call_ends(s, [seen EXCEPT !.error = "api_error"])
    ELSE IF result = "missing"
    THEN call_ends(s, [seen EXCEPT !.error = "not_found"])
    ELSE \E d \in DownloadOutcomes, n \in 1..2 :
         IF d = "raise" THEN call_ends(s, [seen EXCEPT !.error = "exception"])
         ELSE call_ends(s, [seen EXCEPT !.success = TRUE, !.count = n])

\* pixiv_download(illust_id): _get_api() is called before the try block, the
\* rest runs inside it
pixiv_download ==
    \E o1 \in AuthOutcomes :
    LET seen == [NoPx EXCEPT !.op = "download"]
        s1 == _get_api(Entered, FALSE, o1)
    IN  IF s1.raised THEN call_ends(s1, [seen EXCEPT !.raised = TRUE])
        ELSE \E r1 \in DetailResults :
             LET seen1 == [seen EXCEPT !.api_calls = <<r1>>] IN
             IF r1 = "raise" THEN call_ends(s1, [seen1 EXCEPT !.error = "exception"])
             ELSE IF is_token_error(r1)
             THEN \E o2 \in AuthOutcomes :
                  LET s2 == _get_api(s1, TRUE, o2) IN
                  IF s2.raised
                  THEN call_ends(s2, [seen1 EXCEPT !.error = "exception"])
                  ELSE \E r2 \in DetailResults :
                       LET seen2 == [seen EXCEPT !.api_calls = <<r1, r2>>] IN
                       IF r2 = "raise"
                       THEN call_ends(s2, [seen2 EXCEPT !.error = "exception"])
                       ELSE download_result(s2, seen2, r2)
             ELSE download_result(s1, seen1, r1)

\* refresh_auth()
refresh_auth ==
    \E o1 \in AuthOutcomes :
    LET a == _do_auth(_last_auth_time, o1)
        seen == [NoPx EXCEPT !.op = "refresh"]
    IN  IF _api # 0
        THEN /\ _last_auth_time' = a.last
             /\ px' = [seen EXCEPT !.raised = (a.res = "no_token"),
                                   !.success = (a.res # "no_token")]
             /\ UNCHANGED <<_api, now, token_file>>
        ELSE /\ px' = seen
             /\ UNCHANGED <<_api, _last_auth_time, now, token_file>>

\* time passes
Tick ==
    /\ \E t \in Instants : t > now /\ now' = t
    /\ UNCHANGED <<_api, _last_auth_time, token_file, px>>

\* get_refresh_token.py saves the refresh token
token_saved ==
    /\ ~token_file
    /\ token_file' = TRUE
    /\ UNCHANGED <<_api, _last_auth_time, now, px>>

\* the service after import, with or without a saved refresh token
InitPixivService ==
    /\ InitQueue
    /\ InitComic
    /\ InitIdle
    /\ _api = 0
    /\ _last_auth_time = 0
    /\ now = StartTime
    /\ token_file \in BOOLEAN
    /\ px = NoPx
    /\ InitRest

pixivOther == <<queueVars, comicVars, timeoutVars, buildVars, restVars>>

Search == \E limit \in Limits : pixiv_search(limit) /\ UNCHANGED pixivOther

Ranking == \E limit \in Limits : pixiv_ranking(limit) /\ UNCHANGED pixivOther

Detail == pixiv_detail /\ UNCHANGED pixivOther

PixivDownload == pixiv_download /\ UNCHANGED pixivOther

Refresh == refresh_auth /\ UNCHANGED pixivOther

TimePasses == Tick /\ UNCHANGED pixivOther

TokenSaved == token_saved /\ UNCHANGED pixivOther

NextPixiv ==
    Search \/ Ranking \/ Detail \/ PixivDownload \/ Refresh \/ TimePasses
        \/ TokenSaved

SpecPixiv == InitPixivService /\ [][NextPixiv]_vars

\* ------------------------------------------------- Pixiv service properties
\* C18: pixiv_download never raises to its caller; every call that does not
\* succeed returns a failure result that carries an error text.
C18_NeverRaises ==
    px.op = "download" => /\ ~px.raised
                          /\ px.success \/ px.error # ""

\* C19: a _get_api call that finds no session authenticates; a call that finds
\* one authenticates exactly when it is forced or more than AUTH_MAX_AGE
\* seconds lie between the recorded authentication time and the call.
C19_AuthRule ==
    \A i \in 1..Len(px.gets) :
        LET g == px.gets[i] IN
        IF g.api = 0 THEN g.auth # "none"
        ELSE (g.auth # "none") <=> (g.force \/ g.now - g.last > AUTH_MAX_AGE)

\* C19 witness: a call that is not forced finds a session authenticated
\* AUTH_MAX_AGE + 1 seconds earlier and authenticates again.
C19_Witness ==
    \E i \in 1..Len(px.gets) :
        LET g == px.gets[i] IN
        /\ g.api # 0
        /\ ~g.force
        /\ g.last > 0
        /\ g.now - g.last = AUTH_MAX_AGE + 1
        /\ g.auth = "ok"

\* C20: a search or ranking call whose first result is empty and error-flagged
\* makes one forced _get_api call and one further API call, and then ends: with
\* the first `limit` works of the second result when the second call returns
\* one, whatever it holds.
C20_OneRetry ==
    (/\ px.op \in {"search", "ranking"}
     /\ px.api_calls # <<>>
     /\ ~px.api_calls[1].raises
     /\ px.api_calls[1].illusts = <<>>
     /\ px.api_calls[1].error)
    => /\ Len(px.gets) = 2
       /\ ~px.gets[1].force
       /\ px.gets[2].force
       /\ px.gets[2].auth # "none"
       /\ Len(px.api_calls) = 2
       /\ px.raised = px.api_calls[2].raises
       /\ Len(px.illusts) <= px.limit
       /\ \A i \in 1..Len(px.illusts) : px.illusts[i] = px.api_calls[2].illusts[i]
       /\ Len(px.illusts) = Min(px.limit, Len(px.api_calls[2].illusts))

\* C20 witness: the second result is empty and error-flagged too, and the call
\* returns no works after it.
C20_Witness ==
    /\ px.op \in {"search", "ranking"}
    /\ Len(px.api_calls) = 2
    /\ ~px.api_calls[2].raises
    /\ px.api_calls[2].illusts = <<>>
    /\ px.api_calls[2].error
    /\ Len(px.gets) = 2
    /\ ~px.raised
    /\ px.illusts = <<>>

\* ------------------------------------------------------------ Pixiv commands
\* the events of Pixiv commands: user 1 writes in group 1 and in private chat
\* (group_id 0 is None)
PixivEvents ==
    { [user_id |-> 1, group_id |-> 1], [user_id |-> 1, group_id |-> 0] }

\* _cache_key(event): (str(event.user_id), group_id or None); str is
\* one-to-one on user ids, so the id stands for its text
_cache_key(event) == <<event.user_id, event.group_id>>

\* the numbers a download command carries: no index, the first index, an index
\* past a short result list, one past the longest list, and both sides of
\* INDEX_MAX
DownloadArgs == {0, 1, 3, DEFAULT_LIMIT + 1, INDEX_MAX, INDEX_MAX + 1}

\* _handle_download: `int(id_or_idx) <= 20 and key in _search_cache`
is_index(id_or_idx, key, cache) ==
    id_or_idx <= INDEX_MAX /\ key \in DOMAIN cache

\* _handle_download: `0 <= idx < len(_search_cache[key])`
in_range_from_one(idx, lst) == 0 < idx /\ idx < Len(lst)

in_range(idx, lst) == 0 <= idx /\ idx < Len(lst)

\* _handle_download: the illust_id passed to pixiv_download
resolve_id(id_or_idx, key, cache) ==
    IF is_index(id_or_idx, key, cache)
    THEN LET idx == id_or_idx - 1 IN
         IF in_range(idx, cache[key]) THEN cache[key][idx + 1] ELSE id_or_idx
    ELSE id_or_idx

\* `_search_cache[key] = illusts`
cache_keep(cache, key, illusts) == cache

cache_store(cache, key, illusts) ==
    [k \in DOMAIN cache \cup {key} |-> IF k = key THEN illusts ELSE cache[k]]

\* a handler reaches `await asyncio.to_thread(...)`
Waiting(cmd, event, arg, illust_id, quick) ==
    [cmd |-> cmd, key |-> _cache_key(event), arg |-> arg,
     illust_id |-> illust_id, quick |-> quick]

\* a handler up to its asyncio.to_thread call; is_plugin_enabled("pixiv") is
\* read from the plugin switcher, and a blocked command ends at once
handler_starts(enabled, waiting) ==
    /\ pending' = IF enabled THEN pending \cup {waiting} ELSE pending
    /\ UNCHANGED <<_search_cache, pixivVars>>

\* _handle_search(bot, event, keyword) up to the service call
_handle_search(enabled, event) ==
    handler_starts(enabled, Waiting("search", event, 0, 0, FALSE))

\* _handle_ranking(bot, event, mode) up to the service call
_handle_ranking(enabled, event) ==
    handler_starts(enabled, Waiting("ranking", event, 0, 0, FALSE))

\* _handle_detail(bot, event, illust_id) up to the service call
_handle_detail(enabled, event, illust_id) ==
    handler_starts(enabled, Waiting("detail", event, illust_id, illust_id, FALSE))

\* _handle_download(bot, event, id_or_idx) up to the service call
_handle_download(enabled, event, id_or_idx) ==
    handler_starts(enabled,
        Waiting("download", event, id_or_idx,
                resolve_id(id_or_idx, _cache_key(event), _search_cache), FALSE))

\* the px_quick_cmd handler and _handle_download_quick up to the service call
_handle_download_quick(enabled, event, illust_id) ==
    handler_starts(enabled, Waiting("download", event, illust_id, illust_id, TRUE))

\* the service call of a waiting handler returns or raises, and the handler
\* runs to its end: search and ranking store a result that is not empty
handler_resumes(r) ==
    /\ r \in pending
    /\ pending' = pending \ {r}
    /\ IF r.cmd = "search"
       THEN /\ pixiv_search(DEFAULT_LIMIT)
            /\ _search_cache' =
                  IF px'.raised \/ px'.illusts = <<>> THEN _search_cache
                  ELSE cache_store(_search_cache, r.key, px'.illusts)
       ELSE IF r.cmd = "ranking"
       THEN /\ pixiv_ranking(DEFAULT_LIMIT)
            /\ _search_cache' =
                  IF px'.raised \/ px'.illusts = <<>> THEN _search_cache
                  ELSE cache_store(_search_cache, r.key, px'.illusts)
       ELSE IF r.cmd = "detail"
       THEN pixiv_detail /\ UNCHANGED _search_cache
       ELSE pixiv_download /\ UNCHANGED _search_cache

botOther ==
    <<queueVars, comicVars, timeoutVars, buildVars, lockVars, uploadVars,
      retryVars, threadVars, fileVars>>

\* a command arrives while fewer than MaxPending handlers wait for the service
SearchCmd ==
    \E enabled \in BOOLEAN, e \in PixivEvents :
        /\ Cardinality(pending) < MaxPending
        /\ _handle_search(enabled, e)
        /\ UNCHANGED botOther

RankingCmd ==
    \E enabled \in BOOLEAN, e \in PixivEvents :
        /\ Cardinality(pending) < MaxPending
        /\ _handle_ranking(enabled, e)
        /\ UNCHANGED botOther

DetailCmd ==
    \E enabled \in BOOLEAN, e \in PixivEvents :
        /\ Cardinality(pending) < MaxPending
        /\ _handle_detail(enabled, e, INDEX_MAX + 1)
        /\ UNCHANGED botOther

DownloadCmd ==
    \E enabled \in BOOLEAN, e \in PixivEvents, n \in DownloadArgs :
        /\ Cardinality(pending) < MaxPending
        /\ _handle_download(enabled, e, n)
        /\ UNCHANGED botOther

QuickCmd ==
    \E enabled \in BOOLEAN, e \in PixivEvents, n \in DownloadArgs :
        /\ Cardinality(pending) < MaxPending
        /\ _handle_download_quick(enabled, e, n)
        /\ UNCHANGED botOther

Resumed == \E r \in pending : handler_resumes(r) /\ UNCHANGED botOther

InitPixivBot == InitQueue /\ InitComic /\ InitIdle /\ InitPixiv /\ InitRest

NextPixivBot ==
    SearchCmd \/ RankingCmd \/ DetailCmd \/ DownloadCmd \/ QuickCmd \/ Resumed

SpecPixivBot == InitPixivBot /\ [][NextPixivBot]_vars

\* ------------------------------------------------- Pixiv command properties
\* C21 as stated: a download command with n <= INDEX_MAX and a cached result
\* for the user key downloads the n-th cached work; any other download
\* command, and every quick download, downloads the work with id n.
C21_IndexOrLiteral ==
    [][\A r \in pending' \ pending :
          r.cmd = "download" =>
             IF ~r.quick /\ r.arg <= INDEX_MAX /\ r.key \in DOMAIN _search_cache
             THEN /\ r.arg \in 1..Len(_search_cache[r.key])
                  /\ r.illust_id = _search_cache[r.key][r.arg]
             ELSE r.illust_id = r.arg]_vars

\* C21: a download command with a cached result for the user key and
\* 1 <= n <= the length of that result (which is below INDEX_MAX) downloads the
\* n-th cached work; any other download command, and every quick download,
\* downloads the work with id n.
C21_Resolution ==
    [][\A r \in pending' \ pending :
          r.cmd = "download" =>
             IF /\ ~r.quick
                /\ r.arg <= INDEX_MAX
                /\ r.key \in DOMAIN _search_cache
                /\ r.arg \in 1..Len(_search_cache[r.key])
             THEN r.illust_id = _search_cache[r.key][r.arg]
             ELSE r.illust_id = r.arg]_vars

\* C21 witness: a download command waits for the work its index names in the
\* cached result of its user key.
C21_Witness ==
    \E r \in pending :
        /\ r.cmd = "download"
        /\ ~r.quick
        /\ r.key \in DOMAIN _search_cache
        /\ r.arg \in 1..Len(_search_cache[r.key])
        /\ r.illust_id = _search_cache[r.key][r.arg]
        /\ r.illust_id # r.arg

\* C22 as stated: when a search or ranking call of a user key returns, the
\* cache entry of the key is the list the call returned and no other entry
\* changes.
C22_Overwritten ==
    [][\A r \in pending \ pending' :
          (r.cmd \in {"search", "ranking"} /\ ~px'.raised) =>
             /\ r.key \in DOMAIN _search_cache'
             /\ _search_cache'[r.key] = px'.illusts
             /\ DOMAIN _search_cache' = DOMAIN _search_cache \cup {r.key}
             /\ \A k \in DOMAIN _search_cache \ {r.key} :
                   _search_cache'[k] = _search_cache[k]]_vars

\* C22: when a search or ranking call of a user key returns a list that is not
\* empty, the cache entry of the key becomes that list and no other entry
\* changes; when it returns no work or raises, the cache is left as it was.
C22_OverwrittenByResults ==
    [][\A r \in pending \ pending' :
          r.cmd \in {"search", "ranking"} =>
             IF ~px'.raised /\ px'.illusts # <<>>
             THEN /\ r.key \in DOMAIN _search_cache'
                  /\ _search_cache'[r.key] = px'.illusts
                  /\ DOMAIN _search_cache' = DOMAIN _search_cache \cup {r.key}
                  /\ \A k \in DOMAIN _search_cache \ {r.key} :
                        _search_cache'[k] = _search_cache[k]
             ELSE _search_cache' = _search_cache]_vars

\* C22 witness: the last search or ranking call returned works, one user key
\* holds them and the other key holds another list.
C22_Witness ==
    /\ px.op \in {"search", "ranking"}
    /\ px.illusts # <<>>
    /\ \E k1, k2 \in DOMAIN _search_cache :
          /\ _search_cache[k1] = px.illusts
          /\ _search_cache[k2] # px.illusts

\* ------------------------------------------------------------ the queue lock
\* The queue functions statement by statement. None of them awaits while it
\* holds _queue_lock, so `async with _queue_lock` always finds the lock free
\* and a function runs from entry to return without suspension.

\* a queue function is entered: the lists as it finds them, the lock not held
\* by it, no list written yet
Entering ==
    [running |-> _running_jobs, queue |-> _download_queue, held |-> FALSE,
     writes |-> <<>>]

\* `async with _queue_lock:` is entered
acquire(s) == [s EXCEPT !.held = TRUE]

\* the `async with _queue_lock:` block is left
release(s) == [s EXCEPT !.held = FALSE]

\* a statement mutates _running_jobs
write_running(s, value) ==
    [s EXCEPT !.running = value,
              !.writes = Append(@, [list |-> "_running_jobs", held |-> s.held])]

\* a statement mutates _download_queue
write_queue(s, value) ==
    [s EXCEPT !.queue = value,
              !.writes = Append(@, [list |-> "_download_queue", held |-> s.held])]

\* enqueue_job: every statement after the job dict is built sits in the block
enqueue_stmts(job) ==
    LET s1 == acquire(Entering) IN
    IF queue_is_full(s1.queue) THEN release(s1)
    ELSE IF enqueue_can_start(s1.running)
    THEN release(write_running(s1, Append(s1.running, job)))
    ELSE release(write_queue(s1, Append(s1.queue, job)))

\* cancel_job: the slice assignment sits in the block
cancel_stmts(album_id) ==
    LET s1 == acquire(Entering) IN
    release(write_queue(s1, cancel_filter(s1.queue, album_id)))

\* _finish_job: the block holds the removal only; the test of the waiting
\* queue, the pop and the append follow the block
finish_stmts(job) ==
    LET s1 == acquire(Entering)
        s2 == IF InList(s1.running, job)
              THEN write_running(s1, RemoveFirst(s1.running, job))
              ELSE s1
        s3 == release(s2)
    IN  IF finish_can_promote(s3.queue, s3.running)
        THEN LET k == pop_index(s3.queue)
                 s4 == write_queue(s3,
                           SubSeq(s3.queue, 1, k - 1)
                              \o SubSeq(s3.queue, k + 1, Len(s3.queue)))
             IN  write_running(s4, Append(s4.running, s3.queue[k]))
        ELSE s3

\* what the observer keeps of a function that has returned
returned(op, s) ==
    [op |-> op, writes |-> s.writes, running |-> s.running, queue |-> s.queue]

lockOther ==
    <<comicVars, timeoutVars, buildVars, pixivVars, cacheVars, uploadVars,
      retryVars, threadVars, fileVars>>

\* enqueue_job is called
LockedEnqueue ==
    \E r \in Requests :
        LET s == enqueue_stmts(MakeJob(r[1], r[2])) IN
        /\ Len(_download_queue) < MaxWaiting
        /\ HasFreeTask(tasks)
        /\ ~_queue_lock
        /\ enqueue_job(r[1], r[2], FALSE)
        /\ _queue_lock' = s.held
        /\ qop' = returned("enqueue", s)
        /\ UNCHANGED lockOther

\* cancel_job is called
LockedCancel ==
    \E a \in AlbumIds :
        LET s == cancel_stmts(a) IN
        /\ ~_queue_lock
        /\ cancel_job(a)
        /\ _queue_lock' = s.held
        /\ qop' = returned("cancel", s)
        /\ UNCHANGED lockOther

\* a _run_job task resumes; when it reaches its end it calls _finish_job
LockedRun ==
    \E t \in TaskIds :
        LET s == finish_stmts(tasks[t].job) IN
        /\ step(t)
        /\ IF ret'.op = "finish"
           THEN /\ ~_queue_lock
                /\ _queue_lock' = s.held
                /\ qop' = returned("finish", s)
           ELSE /\ qop' = NoQop
                /\ UNCHANGED _queue_lock
        /\ UNCHANGED lockOther

NextLock == LockedEnqueue \/ LockedCancel \/ LockedRun

SpecLock == Init /\ [][NextLock]_vars

\* C23: every write a queue function makes to the running list or to the
\* waiting queue is made while the function holds the queue lock.
C23_WritesUnderLock ==
    \A i \in 1..Len(qop.writes) : qop.writes[i].held

\* ------------------------------------------------------- pipeline properties
\* C24: a task enters the failure notice only from the download or the build
\* (which are entered only from the task's start or the download), with the
\* lists and the upload lock untouched; from the notice its only step is
\* _finish_job, which removes the job from the running list and, when a job
\* waits, moves the head of the waiting queue to the running list and starts
\* its task: the task never reaches the upload or the cover post.
C24_FailureFinishes ==
    [][\A t \in TaskIds :
          /\ (tasks'[t].pc = "download" /\ tasks'[t] # tasks[t]) => Started(t)
          /\ (tasks'[t].pc = "build" /\ tasks'[t] # tasks[t]) =>
                tasks[t].pc = "download"
          /\ (tasks'[t].pc = "notify_fail" /\ tasks'[t] # tasks[t]) =>
                /\ tasks[t].pc \in {"download", "build"}
                /\ tasks'[t].job = tasks[t].job
                /\ UNCHANGED <<_running_jobs, _download_queue, _upload_lock>>
          /\ (tasks[t].pc = "notify_fail" /\ tasks'[t] # tasks[t]) =>
                LET job == tasks[t].job
                    running1 == RemoveFirst(_running_jobs, job)
                IN  /\ InList(_running_jobs, job)
                    /\ UNCHANGED _upload_lock
                    /\ IF _download_queue = <<>>
                       THEN /\ _running_jobs' = running1
                            /\ _download_queue' = <<>>
                            /\ tasks' = [tasks EXCEPT ![t] = NoTask]
                       ELSE /\ _running_jobs' =
                                  Append(running1, Head(_download_queue))
                            /\ _download_queue' = Tail(_download_queue)
                            /\ \E u \in TaskIds :
                                  /\ tasks'[u] =
                                        [NoTask EXCEPT !.pc = "download",
                                            !.job = Head(_download_queue)]
                                  /\ tasks' = [[tasks EXCEPT ![t] = NoTask]
                                                  EXCEPT ![u] = tasks'[u]]]_vars

\* C24 witness: the download or the build of a running job has failed and its
\* failure notice is being sent while another job waits.
C24_Witness ==
    \E t \in TaskIds :
        /\ tasks[t].pc = "notify_fail"
        /\ InList(_running_jobs, tasks[t].job)
        /\ _download_queue # <<>>

\* ------------------------------------------------------------ upload
\* Texts are sequences of characters; a character outside ASCII is written by
\* its code point.

\* str.lower() on the letters A-Z; every other character of the texts below
\* is its own lower case
UpperChars ==
    <<"A", "B", "C", "D", "E", "F", "G", "H", "I", "J", "K", "L", "M", "N",
      "O", "P", "Q", "R", "S", "T", "U", "V", "W", "X", "Y", "Z">>

LowerChars ==
    <<"a", "b", "c", "d", "e", "f", "g", "h", "i", "j", "k", "l", "m", "n",
      "o", "p", "q", "r", "s", "t", "u", "v", "w", "x", "y", "z">>

lower_char(c) ==
    IF \E i \in 1..Len(UpperChars) : UpperChars[i] = c
    THEN LowerChars[CHOOSE i \in 1..Len(UpperChars) : UpperChars[i] = c]
    ELSE c

lower(text) == [i \in 1..Len(text) |-> lower_char(text[i])]

\* `needle in text`
contains(text, needle) ==
    \E i \in 0..(Len(text) - Len(needle)) :
        SubSeq(text, i + 1, i + Len(needle)) = needle

\* the terms of _is_upload_timeout and _should_retry_with_simple_name
TimeoutTerm ==
    <<"t", "i", "m", "e", "o", "u", "t">>

NetworkErrorTerm ==
    <<"n", "e", "t", "w", "o", "r", "k", "e", "r", "r", "o", "r">>

NetworkSpaceErrorTerm ==
    <<"n", "e", "t", "w", "o", "r", "k", " ", "e", "r", "r", "o", "r">>

UploadTerm ==
    <<"u", "p", "l", "o", "a", "d">>

RichMediaTerm ==
    <<"r", "i", "c", "h", " ", "m", "e", "d", "i", "a", " ", "t", "r", "a",
      "n", "s", "f", "e", "r", " ", "f", "a", "i", "l", "e", "d">>

RetcodeTerm ==
    <<"r", "e", "t", "c", "o", "d", "e", "=", "1", "2", "0", "0">>

\* _is_upload_timeout(err_text)
_is_upload_timeout(err_text) ==
    LET text == lower(err_text) IN
    /\ \/ contains(text, TimeoutTerm)
       \/ contains(text, NetworkErrorTerm)
       \/ contains(text, NetworkSpaceErrorTerm)
    /\ contains(text, UploadTerm)

\* _should_retry_with_simple_name(err_text)
_should_retry_with_simple_name(err_text) ==
    LET text == lower(err_text) IN
    contains(text, RichMediaTerm) \/ contains(text, RetcodeTerm)

\* the desc arguments of _call_with_timeout in _upload_pdf_with_retry
UploadDesc ==
    <<"U+4E0A", "U+4F20", "P", "D", "F">>

RetryDesc ==
    <<"U+4E0A", "U+4F20", "P", "D", "F", "(", "U+91CD", "U+8BD5", ")">>

\* _call_with_timeout: the text of the RuntimeError raised when
\* asyncio.wait_for gives up after `to` seconds, f"{desc} ...(>{to}s)"
TimeoutMessage(desc, to) ==
    desc \o
    <<" ", "U+8D85", "U+65F6", "U+FF08", ">">>
      \o to \o
    <<"s", "U+FF09">>

\* str(timeout) of the timeouts _calc_upload_timeout returns: the int
\* API_TIMEOUT, or a float up to the cap
TimeoutTexts == { Digits(API_TIMEOUT), Digits(TIMEOUT_CAP) \o <<".", "0">> }

\* str(e) of the exceptions the chat API raises for an upload: the two
\* filename rejections, the adapter's own timeout, a timeout that does not
\* name the upload, and another failure
RichMediaText ==
    <<"R", "i", "c", "h", " ", "m", "e", "d", "i", "a", " ", "t", "r", "a",
      "n", "s", "f", "e", "r", " ", "f", "a", "i", "l", "e", "d">>

RetcodeText ==
    <<"A", "c", "t", "i", "o", "n", "F", "a", "i", "l", "e", "d", " ", "r",
      "e", "t", "c", "o", "d", "e", "=", "1", "2", "0", "0">>

AdapterTimeoutText ==
    <<"N", "e", "t", "W", "o", "r", "k", "E", "r", "r", "o", "r", " ", "u",
      "p", "l", "o", "a", "d", "_", "g", "r", "o", "u", "p", "_", "f", "i",
      "l", "e", " ", "t", "i", "m", "e", "o", "u", "t">>

OtherTimeoutText ==
    <<"s", "e", "n", "d", "_", "g", "r", "o", "u", "p", "_", "m", "s", "g",
      " ", "t", "i", "m", "e", "o", "u", "t">>

OtherText ==
    <<"r", "e", "t", "c", "o", "d", "e", "=", "1", "0", "0">>

ApiErrorTexts ==
    {RichMediaText, RetcodeText, AdapterTimeoutText, OtherTimeoutText, OtherText}

\* how one _call_with_timeout(_upload_pdf(...)) ends: it returns, wait_for
\* gives up after the computed upload timeout, or the chat API raises
ok_call == [kind |-> "ok", text |-> <<>>]

CallResults ==
    {ok_call} \cup
    { [kind |-> "expired", text |-> to] : to \in TimeoutTexts } \cup
    { [kind |-> "raised", text |-> x] : x \in ApiErrorTexts }

\* str(e) of the exception a call ends with
err_text_of(desc, result) ==
    IF result.kind = "expired" THEN TimeoutMessage(desc, result.text)
    ELSE result.text

\* the base name of the PDF entries of a job, f"{comic_name}_{chapter_name}",
\* and the fallback f"JM_{album_id}_{chapter_name}"; comic_name is the album
\* title, or f"JM_{album_id}" when safe_filename finds the title empty
EntryBase == <<"x", "_", "1">>

FallbackBase == <<"J", "M", "_", "1", "_", "1">>

\* the base names a job may build its entries with
BaseNameChoices == {EntryBase, FallbackBase}

\* the retry branch of _upload_pdf_with_retry on the files of pdf_dir:
\* `if retry_path != pdf_path: shutil.copy2(pdf_path, retry_path)`, and in the
\* finally block `if retry_path.exists(): retry_path.unlink()`
retry_files(files, name, retry_name) ==
    LET copied == IF retry_name # name THEN files \cup {retry_name} ELSE files
    IN  copied \ {retry_name}

\* _upload_pdf_with_retry for the entry idx of total, built with base_name:
\* the upload calls made (file name and result), upload_err (which exception
\* it was made from; clean_error_text never returns an empty text) and
\* upload_warn
_upload_pdf_with_retry(base_name, idx, total, first, retry) ==
    LET name == _clamp_filename_length(_final_pdf_name(base_name, idx, total),
                                       MAX_PDF_NAME_LENGTH)
        retry_name == _clamp_filename_length(
                          _final_pdf_name(FallbackBase, idx, total),
                          MAX_PDF_NAME_LENGTH)
        call1 == [name |-> name, result |-> first]
        call2 == [name |-> retry_name, result |-> retry]
        text1 == err_text_of(UploadDesc, first)
        text2 == err_text_of(RetryDesc, retry)
    IN  IF first.kind = "ok"
        THEN [calls |-> <<call1>>, upload_err |-> "none", upload_warn |-> "none"]
        ELSE IF _should_retry_with_simple_name(text1)
        THEN IF retry.kind = "ok"
             THEN [calls |-> <<call1, call2>>, upload_err |-> "none",
                   upload_warn |-> "renamed"]
             ELSE IF _is_upload_timeout(text2)
             THEN [calls |-> <<call1, call2>>, upload_err |-> "none",
                   upload_warn |-> "slow"]
             ELSE [calls |-> <<call1, call2>>, upload_err |-> "retry",
                   upload_warn |-> "none"]
        ELSE IF _is_upload_timeout(text1)
        THEN [calls |-> <<call1>>, upload_err |-> "none", upload_warn |-> "slow"]
        ELSE [calls |-> <<call1>>, upload_err |-> "first", upload_warn |-> "none"]

\* _run_job: `if upload_err:` ends the part loop
loop_breaks_never(upload_err) == FALSE

loop_breaks(upload_err) == upload_err # "none"

\* a job has built `total` PDF entries with base_name and enters its upload
\* block: pdf_dir holds the file of every entry
BuiltJob(message_type, total, cover_exists, base_name) ==
    [NoUp EXCEPT !.phase = "upload", !.message_type = message_type,
                 !.total = total, !.cover_exists = cover_exists,
                 !.base_name = base_name,
                 !.files = { _clamp_filename_length(
                                 _final_pdf_name(base_name, i, total),
                                 MAX_PDF_NAME_LENGTH) : i \in 1..total }]

\* _run_job: one pass of the part loop
upload_part(first, retry) ==
    LET idx == Len(up.parts) + 1
        r == _upload_pdf_with_retry(up.base_name, idx, up.total, first, retry)
        done == loop_breaks(r.upload_err) \/ idx = up.total
    IN  /\ up.phase = "upload"
        /\ up' = [up EXCEPT !.parts = Append(@, r),
                            !.files = IF Len(r.calls) = 2
                                      THEN retry_files(@, r.calls[1].name,
                                                       r.calls[2].name)
                                      ELSE @,
                            !.upload_err = r.upload_err,
                            !.upload_warn = r.upload_warn,
                            !.phase = IF done THEN "after" ELSE "upload"]

\* _run_job after the upload block: the cover post or the send-failed notice,
\* then _finish_job
after_parts ==
    /\ up.phase = "after"
    /\ up' = [up EXCEPT
          !.phase = "done",
          !.cover_posted = /\ up.upload_err = "none"
                           /\ up.cover_exists
                           /\ up.message_type = "group",
          !.sent = IF up.upload_err = "none" THEN @
                   ELSE Append(@, "send_failed"),
          !.finished = TRUE]

uploadOther ==
    <<queueVars, comicVars, timeoutVars, buildVars, pixivVars, cacheVars,
      lockVars, retryVars, threadVars, fileVars>>

UploadPart ==
    \E first \in CallResults :
        /\ IF _should_retry_with_simple_name(err_text_of(UploadDesc, first))
           THEN \E retry \in CallResults : upload_part(first, retry)
           ELSE upload_part(first, ok_call)
        /\ UNCHANGED uploadOther

AfterParts == after_parts /\ UNCHANGED uploadOther

InitUploadJob ==
    /\ InitQueue
    /\ InitComic
    /\ InitIdle
    /\ InitPixiv
    /\ InitCache
    /\ InitLock
    /\ InitRetry
    /\ InitThreads
    /\ InitFiles
    /\ up \in { BuiltJob(m, n, c, b) :
                  m \in {"group", "private"}, n \in 1..MaxParts, c \in BOOLEAN,
                  b \in BaseNameChoices }

NextUpload == UploadPart \/ AfterParts

SpecUpload == InitUploadJob /\ [][NextUpload]_vars

\* ------------------------------------------------------- upload properties
\* the file name of entry idx of a job with total entries
EntryName(idx, total) ==
    _clamp_filename_length(_final_pdf_name(up.base_name, idx, total),
                           MAX_PDF_NAME_LENGTH)

\* the simplified name entry idx is retried under
FallbackName(idx, total) ==
    _clamp_filename_length(_final_pdf_name(FallbackBase, idx, total),
                           MAX_PDF_NAME_LENGTH)

\* how the last upload call of a part ended
LastCall(p) == p.calls[Len(p.calls)].result

\* C25: the parts are uploaded in list order; no part is uploaded after a part
\* that ended with an upload error; the loop ends at such a part or after the
\* last part; a job with a failed part sends the send-failed notice once,
\* posts no cover and calls _finish_job.
C25_StopsAtFailedPart ==
    /\ Len(up.parts) <= up.total
    /\ \A i \in 1..Len(up.parts) :
          /\ up.parts[i].calls[1].name = EntryName(i, up.total)
          /\ i < Len(up.parts) => up.parts[i].upload_err = "none"
    /\ up.phase = "upload" =>
          /\ Len(up.parts) < up.total
          /\ up.upload_err = "none"
    /\ up.phase \in {"after", "done"} =>
          /\ up.parts # <<>>
          /\ \/ up.parts[Len(up.parts)].upload_err # "none"
             \/ Len(up.parts) = up.total
    /\ up.phase = "done" =>
          /\ up.finished
          /\ up.parts[Len(up.parts)].upload_err # "none" =>
                /\ up.sent = <<"send_failed">>
                /\ ~up.cover_posted

\* C25 witness: the first of several parts of a group job with a cover failed
\* for good; the job has sent its notice and is finalized without the others.
C25_Witness ==
    /\ up.phase = "done"
    /\ up.total > 1
    /\ up.message_type = "group"
    /\ up.cover_exists
    /\ Len(up.parts) = 1
    /\ up.parts[1].upload_err # "none"
    /\ up.sent = <<"send_failed">>
    /\ up.finished

\* C26: a part whose first upload is refused for its file name is uploaded
\* once more, under the fallback name, and not again; when that second upload
\* succeeds the part has no upload error and the job, by the time it is
\* finalized, has sent the requester the warning about the file name.
C26_RenamedRetryWarns ==
    \A i \in 1..Len(up.parts) :
        LET p == up.parts[i]
            first == p.calls[1].result
        IN  (first.kind = "raised" /\ first.text \in {RichMediaText, RetcodeText})
            => /\ Len(p.calls) = 2
               /\ p.calls[2].name = FallbackName(i, up.total)
               /\ p.calls[2].result.kind = "ok" =>
                     /\ p.upload_err = "none"
                     /\ up.finished =>
                           \E k \in 1..Len(up.sent) : up.sent[k] = "renamed"

\* C27: a part whose upload call outlasts the computed upload timeout ends
\* with a warning and without upload error, so that the loop goes on and the
\* job sends no send-failed notice for it.
C27_ExpiredIsWarning ==
    \A i \in 1..Len(up.parts) :
        LastCall(up.parts[i]).kind = "expired" =>
            /\ up.parts[i].upload_err = "none"
            /\ up.parts[i].upload_warn = "slow"

\* ------------------------------------------------- download with retry
\* `"部分下载失败" in msg`: the marker of a partial download failure
PartialMarker ==
    <<"U+90E8", "U+5206", "U+4E0B", "U+8F7D", "U+5931", "U+8D25">>

\* str(e) of the exceptions jmcomic.download_album raises: two that hold the
\* marker, one that holds its tail only, and two others
PartialText ==
    <<"U+90E8", "U+5206", "U+4E0B", "U+8F7D", "U+5931", "U+8D25">>

PartialInsideText ==
    <<"J", "M", "1", " ", "U+90E8", "U+5206", "U+4E0B", "U+8F7D", "U+5931",
      "U+8D25", ":", " ", "2", "/", "1", "0">>

FailedText ==
    <<"U+4E0B", "U+8F7D", "U+5931", "U+8D25">>

MissingText ==
    <<"U+90E8", "U+5206", "U+7AE0", "U+8282", "U+4E0D", "U+5B58", "U+5728">>

NetworkText ==
    <<"N", "e", "t", "w", "o", "r", "k", "E", "r", "r", "o", "r">>

PartialTexts == {PartialText, PartialInsideText}

OtherDownloadTexts == {FailedText, MissingText, NetworkText}

\* how one asyncio.to_thread(jmcomic.download_album, ...) ends
DownloadResults ==
    {ok_call} \cup
    { [kind |-> "raised", text |-> x] :
         x \in PartialTexts \cup OtherDownloadTexts }

\* download_album_with_retry: `attempt >= max_attempts or not partial_failed`
gives_up_gt(attempt, max_attempts, partial_failed) ==
    attempt > max_attempts \/ ~partial_failed

gives_up(attempt, max_attempts, partial_failed) ==
    attempt >= max_attempts \/ ~partial_failed

\* download_album_with_retry(album_id, option, retries) is called: the loop
\* `for attempt in range(1, max_attempts + 1)` starts with attempt 1
StartDl(album_id, retries) ==
    [NoDl EXCEPT !.phase = "attempt", !.album_id = album_id,
                 !.retries = retries, !.attempt = 1]

\* one pass of the loop body: the download of this attempt ends, and the
\* function returns, raises last_err or goes to sleep
attempt_ends(result) ==
    LET max_attempts == dl.retries + 1
        msg == result.text
        partial_failed == contains(msg, PartialMarker)
    IN  /\ dl.phase = "attempt"
        /\ dl' = [dl EXCEPT
              !.outcomes = Append(@, result),
              !.phase = IF result.kind = "ok" THEN "returned"
                        ELSE IF gives_up(dl.attempt, max_attempts, partial_failed)
                        THEN "raised"
                        ELSE "sleep",
              !.last_err = IF result.kind = "ok" THEN @ ELSE msg]

\* asyncio.sleep(wait_seconds) is over: the loop takes the next attempt, or
\* ends when range(1, max_attempts + 1) is used up and the function returns
sleep_ends ==
    LET max_attempts == dl.retries + 1 IN
    /\ dl.phase = "sleep"
    /\ dl' = [dl EXCEPT
          !.attempt = IF dl.attempt + 1 <= max_attempts THEN @ + 1 ELSE @,
          !.phase = IF dl.attempt + 1 <= max_attempts THEN "attempt"
                    ELSE "returned"]

retryOther ==
    <<queueVars, comicVars, timeoutVars, buildVars, pixivVars, cacheVars,
      lockVars, uploadVars, threadVars, fileVars>>

AttemptEnds ==
    \E result \in DownloadResults : attempt_ends(result) /\ UNCHANGED retryOther

SleepEnds == sleep_ends /\ UNCHANGED retryOther

InitRetryCall ==
    /\ InitQueue
    /\ InitComic
    /\ InitIdle
    /\ InitPixiv
    /\ InitCache
    /\ InitLock
    /\ InitUpload
    /\ InitThreads
    /\ InitFiles
    /\ dl \in { StartDl(a, r) : a \in AlbumIds, r \in 0..MaxRetries }

NextRetry == AttemptEnds \/ SleepEnds

SpecRetry == InitRetryCall /\ [][NextRetry]_vars

\* a download attempt that failed with the partial-download marker in its text
IsPartialFailure(result) ==
    result.kind = "raised" /\ result.text \in PartialTexts

\* C28: download_album_with_retry makes at most retries + 1 attempts, every
\* attempt but the last made follows a failure with the partial-download
\* marker, it returns only after an attempt that succeeded, and it raises the
\* error of an attempt that failed without the marker or that was attempt
\* number retries + 1.
C28_RetryOnPartialOnly ==
    LET n == Len(dl.outcomes) IN
    /\ n <= dl.retries + 1
    /\ dl.retries = DEFAULT_RETRIES => n <= 3
    /\ \A i \in 1..(n - 1) : IsPartialFailure(dl.outcomes[i])
    /\ dl.phase \in {"attempt", "sleep"} =>
          /\ n < dl.retries + 1
          /\ \A i \in 1..n : IsPartialFailure(dl.outcomes[i])
          /\ dl.attempt = n + (IF dl.phase = "attempt" THEN 1 ELSE 0)
    /\ dl.phase = "returned" => n >= 1 /\ dl.outcomes[n].kind = "ok"
    /\ dl.phase = "raised" =>
          /\ n >= 1
          /\ dl.outcomes[n].kind = "raised"
          /\ dl.last_err = dl.outcomes[n].text
          /\ n = dl.retries + 1 \/ ~IsPartialFailure(dl.outcomes[n])

\* C28 witness: with the default retries all three attempts failed with the
\* marker and the error of the third was raised.
C28_Witness ==
    /\ dl.retries = DEFAULT_RETRIES
    /\ dl.phase = "raised"
    /\ Len(dl.outcomes) = DEFAULT_RETRIES + 1
    /\ \A i \in 1..Len(dl.outcomes) : IsPartialFailure(dl.outcomes[i])

\* ------------------------------------------------- Pixiv service threads
\* Every Pixiv command runs its service call with asyncio.to_thread, so the
\* calls of commands that wait at the same time run on threads of their own and
\* _get_api is interleaved between the reads and writes of the globals. _api is
\* 0 for None, else the number of the AppPixivAPI object it refers to.

\* a service function calls _get_api(force_reauth) on thread w
thread_starts(w, force_reauth) ==
    /\ workers[w].pc = "idle"
    /\ workers' = [workers EXCEPT ![w] =
           [pc |-> "check", force |-> force_reauth, made |-> 0, api |-> 0]]
    /\ UNCHANGED <<handles, pixivVars>>

\* `if _api is None:` ... `elif force_reauth or (...)` reads the globals
get_api_check(w) ==
    /\ workers[w].pc = "check"
    /\ workers' = [workers EXCEPT ![w].pc =
           IF _api = 0 THEN "create"
           ELSE IF workers[w].force \/ is_stale(now, _last_auth_time)
           THEN "auth"
           ELSE "return"]
    /\ UNCHANGED <<handles, pixivVars>>

\* `AppPixivAPI()` builds a session handle
get_api_create(w) ==
    /\ workers[w].pc = "create"
    /\ handles' = handles + 1
    /\ workers' = [workers EXCEPT ![w].pc = "assign", ![w].made = handles + 1]
    /\ UNCHANGED pixivVars

\* `_api = ...` stores the handle just built
get_api_assign(w) ==
    /\ workers[w].pc = "assign"
    /\ _api' = workers[w].made
    /\ workers' = [workers EXCEPT ![w].pc = "auth"]
    /\ UNCHANGED <<handles, _last_auth_time, now, token_file, px>>

\* `_do_auth(_api)`: it raises when the token file does not exist
get_api_auth(w, outcome) ==
    LET a == _do_auth(_last_auth_time, outcome) IN
    /\ workers[w].pc = "auth"
    /\ _last_auth_time' = a.last
    /\ workers' = [workers EXCEPT ![w].pc =
           IF a.res = "no_token" THEN "idle" ELSE "return"]
    /\ UNCHANGED <<handles, _api, now, token_file, px>>

\* `return _api`
get_api_return(w) ==
    /\ workers[w].pc = "return"
    /\ workers' = [workers EXCEPT ![w].pc = "idle", ![w].api = _api]
    /\ UNCHANGED <<handles, pixivVars>>

threadOther ==
    <<queueVars, comicVars, timeoutVars, buildVars, cacheVars, lockVars,
      uploadVars, retryVars, fileVars>>

ThreadStarts ==
    \E w \in Workers, force_reauth \in BOOLEAN :
        thread_starts(w, force_reauth) /\ UNCHANGED threadOther

GetApiCheck == \E w \in Workers : get_api_check(w) /\ UNCHANGED threadOther

GetApiCreate == \E w \in Workers : get_api_create(w) /\ UNCHANGED threadOther

GetApiAssign == \E w \in Workers : get_api_assign(w) /\ UNCHANGED threadOther

GetApiAuth ==
    \E w \in Workers, outcome \in AuthOutcomes :
        get_api_auth(w, outcome) /\ UNCHANGED threadOther

GetApiReturn == \E w \in Workers : get_api_return(w) /\ UNCHANGED threadOther

NextThreads ==
    ThreadStarts \/ GetApiCheck \/ GetApiCreate \/ GetApiAssign \/ GetApiAuth
        \/ GetApiReturn \/ TimePasses \/ TokenSaved

SpecThreads == InitPixivService /\ [][NextThreads]_vars

\* C29: at most one Pixiv session handle is ever created, however the service
\* calls of concurrent commands interleave.
C29_OneHandle == handles <= 1

\* C30: in every state between operations, a job waits only while the running
\* set is full, len(_running_jobs) == MAX_CONCURRENT.
C30_NoIdleSlot ==
    _download_queue # <<>> => Len(_running_jobs) = MAX_CONCURRENT

\* C30 witness: a job finished, the head of the waiting queue took its slot
\* and another job still waits.
C30_Witness ==
    /\ ret.op = "finish"
    /\ ret.status = "promoted"
    /\ Len(_running_jobs) = MAX_CONCURRENT
    /\ Len(_download_queue) >= 1

\* ------------------------------------------------- build paths
\* C31: the entries a build returns have pairwise distinct paths, and the file
\* at every entry's path is the one built for that entry: no later rename
\* replaced it.
C31_DistinctPaths ==
    final_paths # <<>> =>
        /\ \A i, j \in 1..Len(final_paths) :
              i # j => final_paths[i].path # final_paths[j].path
        /\ \A i \in 1..Len(final_paths) :
              [path |-> final_paths[i].path, part_idx |-> i] \in pdf_dir

\* ------------------------------------------------- upload files
\* C32: after _upload_pdf_with_retry has returned for a part, the PDF file of
\* that part still exists in pdf_dir, whether or not it was retried under the
\* fallback name and also when the fallback name is the name of the file.
C32_OriginalKept ==
    \A i \in 1..Len(up.parts) : EntryName(i, up.total) \in up.files

\* ------------------------------------------------- working directories
\* The working directories of a job are named by its album id alone: pdf_dir
\* is base_dir / f"pdf_{album_id}" and the chapter directories are those
\* load_album_dir returns for the album. A job has files in them from the
\* return of its download to the end of its upload block.
has_files(pc) == pc \in {"build", "lock_wait", "upload"}

\* _run_job of task t returned from _build_pdfs_with_limits with PDF entries
\* in this step: _emit_batch wrote tmp_NNN.pdf into pdf_dir and the renames
\* unlinked and replaced the final paths
has_built(t) ==
    /\ tasks[t].pc = "build"
    /\ tasks'[t].pc \in {"lock_wait", "upload"}
    /\ tasks'[t].total >= 1

\* _run_job of task t passed
\* `asyncio.create_task(delayed_cleanup(cleanup_targets, CLEANUP_DELAY_SECONDS))`
\* in this step: it left its upload block
has_scheduled(t) == has_files(tasks[t].pc) /\ ~has_files(tasks'[t].pc)
    /\ tasks'[t].pc # "notify_fail"

\* the tasks of other jobs that hold files in the directories of album_id
sharing(t, album_id) ==
    { u \in TaskIds \ {t} :
        has_files(tasks[u].pc) /\ tasks[u].job.album_id = album_id }

\* delayed_cleanup(paths, delay_seconds) after its sleep: shutil.rmtree of
\* pdf_dir and of the chapter directories of the album
delayed_cleanup(k) ==
    LET album_id == cleanups[k] IN
    /\ cleanups' = SubSeq(cleanups, 1, k - 1) \o SubSeq(cleanups, k + 1, Len(cleanups))
    /\ touched' = [u \in TaskIds |->
                      IF u \in sharing(0, album_id) THEN "cleanup" ELSE touched[u]]

\* a _run_job task resumes, with what its step does to the directories
run_with_files(t) ==
    LET album_id == tasks[t].job.album_id IN
    /\ step(t)
    /\ has_scheduled(t) => Len(cleanups) < MaxCleanups
    /\ cleanups' = IF has_scheduled(t) THEN Append(cleanups, album_id)
                   ELSE cleanups
    /\ touched' = [u \in TaskIds |->
                      IF ~has_files(tasks'[u].pc) THEN "none"
                      ELSE IF has_built(t) /\ u \in sharing(t, album_id)
                      THEN "build"
                      ELSE touched[u]]

filesOther ==
    <<comicVars, timeoutVars, buildVars, pixivVars, cacheVars, lockVars,
      uploadVars, retryVars, threadVars>>

FilesEnqueue ==
    \E r \in Requests :
        /\ Len(_download_queue) < MaxWaiting
        /\ HasFreeTask(tasks)
        /\ enqueue_job(r[1], r[2], FALSE)
        /\ UNCHANGED <<fileVars, filesOther>>

FilesRun == \E t \in TaskIds : run_with_files(t) /\ UNCHANGED filesOther

CleanupRuns ==
    \E k \in 1..Len(cleanups) :
        delayed_cleanup(k) /\ UNCHANGED <<queueVars, filesOther>>

NextFiles == FilesEnqueue \/ FilesRun \/ CleanupRuns

SpecFiles == Init /\ [][NextFiles]_vars

\* C33: while a job holds working files (from the end of its download to the
\* end of its upload block) no cleanup scheduled by another job and no PDF
\* build of another job removes or replaces files in its directories.
C33_FilesUntouched == \A t \in TaskIds : touched[t] = "none"

====
